---- MODULE Spec2Model ----
(***************************************************************************)
(* Overlay coordination and rendering engine of shadows-and-secrets.       *)
(*                                                                         *)
(* Strings are sequences of character codes, so that key prefix/suffix     *)
(* matching and hashString are computed as the code computes them.         *)
(* Fractions are fixed point: variance and accuracy in hundredths, the     *)
(* seeded random stream in ten-thousandths, multipliers in millionths.     *)
(***************************************************************************)
EXTENDS Integers, Sequences, FiniteSets, TLC

VARIABLES
    obfIn,      \* inputs of the obfuscateHealth calls (None outside SpecObf)
    obfOut,     \* result of obfuscateHealth at clock reading obfIn.now
    obfOut2,    \* result of a second call at clock reading obfIn.now2
    scIn,       \* inputs of the last getTargetTokens call
    scOut,      \* its result (a sequence of tokens)
    canvas,     \* the host canvas: [ready, stage, layers, tokens], tokens: id -> host token
    registry,   \* OverlayRegistry.overlayTypes: overlay id -> definition
    svc,        \* OverlayRenderingService fields
    kbd,        \* KeyboardCoordinator fields and its helper's renderedOverlays
    drag,       \* TokenDragCoordinator fields and its helper's renderedOverlays
    helper,     \* an OverlayCoordinatorHelper used through its public operations
    press,      \* history: per tracked key, what its current press cached and showed
    lastCall,   \* the operation performed by the last step, with what it did
    flags,      \* token documents: [stored: token id -> tracking number flag (0: none),
                \*                   writes: the setFlag updates still in flight]
    tasks,      \* the async key handlers suspended at an await
    builders,   \* the Context Builder Registry: [builders, isInitialised], with
                \* what its callers registered and unregistered
    bus,        \* the Event Bus: [listeners, onceListeners]
    monitor     \* the Health Monitor

pureVars == <<obfIn, obfOut, obfOut2, scIn, scOut>>
engineVars == <<canvas, registry, svc, kbd, drag, helper, press, lastCall>>
busVars == <<builders, bus, monitor>>
hostVars == <<flags, tasks, builders, bus, monitor>>
vars == <<obfIn, obfOut, obfOut2, scIn, scOut, canvas, registry, svc, kbd, drag, helper,
          press, lastCall, flags, tasks, builders, bus, monitor>>

\* null / undefined: a string-valued field holds Null, any other optional
\* value is None or <<value>>
Null == "null"
None == <<>>

Max(a, b) == IF a >= b THEN a ELSE b
Min(a, b) == IF a <= b THEN a ELSE b
Abs(a) == IF a < 0 THEN -a ELSE a
Range(s) == {s[i] : i \in 1..Len(s)}

\* ---------------------------------------------------------------------
\* Strings
\* ---------------------------------------------------------------------
CH_DASH == 45
STR_a == <<97>>
STR_b == <<98>>
STR_arc == <<97, 114, 99>>
STR_health_arc == <<104, 101, 97, 108, 116, 104, 45, 97, 114, 99>>
STR_token_info == <<116, 111, 107, 101, 110, 45, 105, 110, 102, 111>>
STR_obstacle_indicator ==
    <<111, 98, 115, 116, 97, 99, 108, 101, 45, 105, 110, 100, 105, 99, 97, 116, 111, 114>>

startsWith(str, prefix) ==
    Len(str) >= Len(prefix) /\ SubSeq(str, 1, Len(prefix)) = prefix
endsWith(str, suffix) ==
    Len(str) >= Len(suffix) /\ SubSeq(str, Len(str) - Len(suffix) + 1, Len(str)) = suffix

\* Map<K, V> as a function on the set of its keys
EmptyMap == [x \in {} |-> x]
MapSet(f, k, v) == [x \in DOMAIN f \cup {k} |-> IF x = k THEN v ELSE f[x]]
MapDelete(f, k) == [x \in DOMAIN f \ {k} |-> f[x]]

\* ---------------------------------------------------------------------
\* HealthObfuscator
\* ---------------------------------------------------------------------
BASE_PERCEPTION == 10
BASE_VARIANCE == 30
ACCURACY_CHANGE_PER_POINT == 2
MIN_VARIANCE == 0
MAX_VARIANCE == 200
ONE_HUNDREDTHS == 100
ONE_MILLIONTHS == 1000000
BUCKET_MS == 60000

\* floor(frac(sin(seed) * 10000) * 10000) for seed = 0, 1, 2, ...
SinTable == <<
       0, 7098, 9742, 2000, 9750, 7572, 8450, 8659, 5824, 1848, 7888,  979, 2708,
    6703,  735, 8784, 9668,  250, 1275, 7720, 4525, 5563, 4869, 7959, 2163, 4824,
    5845, 7592,  578, 6611, 6837, 6235, 2668, 1186, 8268, 1733, 2114, 6186, 6857,
    9538, 1316, 7733, 7845, 2525,  192,  352, 8834, 7312, 4533, 4734, 2514, 2917,
    2759, 2515, 1095, 4482, 4899, 6475, 7264, 3800, 8937, 8222, 1930, 5570, 2603,
    2867, 4884, 8002, 7231, 1518, 9068, 5465, 2336, 2804, 5373, 1836,  763, 2015,
    7845, 8733, 1134, 1200, 2878, 6446, 9032, 2438, 4155, 8216, 9830, 6940, 9666,
    8751, 3393, 1785, 4801, 6171, 8774,  773, 1812, 9316, 3435, 2578, 2679, 8863,
    7759, 6471, 5749, 8174, 1850, 4260, 5732, 4855,  439, 1809, 8038, 3533, 6139,
     205, 4783, 9589, 1118, 1522, 1315, 9650, 1301, 5954, 9082, 3006, 3771, 2660,
    9404, 9661, 8358, 6575, 2481, 6868, 6679, 8554, 4774, 8013, 3965, 7136,  499,
    5463, 7840, 4516, 6917, 4402, 6660, 5135, 2357, 4988, 2052,   58, 7966, 8801,
    1538, 5145, 2409, 1973, 2525, 9221, 4964, 8982, 3277, 9727, 9156, 4981, 2671,
      13, 4945, 9086, 5914, 8946, 3802, 6540, 5223, 8978, 7533, 2216, 4736, 4859,
    1893, 8040, 8438, 2118, 7606, 2897, 7633, 1795, 9927,  854, 6164, 4342, 1367,
    5466, 3005,  584, 2140,  116,  270,  974, 1840,  970, 2035,  249, 5809, 9497,
    6793, 6664, 1851, 5214, 5290, 2938, 9945, 4562, 5848, 1839, 7547, 8525, 9871,
    3879, 5083, 5348, 7900,  512, 5618, 5859, 2306, 6236, 3579, 1581, 2327, 3928,
    1669, 8664, 6791, 4213, 2388, 9068, 4515, 6171, 8809, 9065, 6370, 8743, 5999,
     718, 5211, 3680, 7198,  613, 1221, 2372, 9889,  836, 9196, 4282, 3562, 9318
>>

seededRandom(seed) == SinTable[seed + 1]

\* hashString keeps a 32-bit integer: hash = ((hash << 5) - hash) + char,
\* then hash & hash (ToInt32).  The 32-bit word is held as two 16-bit halves.
HALF == 65536
RECURSIVE hashFrom(_, _, _, _)
hashFrom(str, i, hi, lo) ==
    IF i > Len(str)
    THEN IF hi >= HALF \div 2 THEN (hi - HALF) * HALF + lo ELSE hi * HALF + lo
    ELSE LET lo1 == lo * 31 + str[i]
             hi1 == hi * 31 + (lo1 \div HALF)
         IN hashFrom(str, i + 1, hi1 % HALF, lo1 % HALF)

hashString(str) == Abs(hashFrom(str, 1, 0, 0))

\* Math.round: nearest integer, halves towards +infinity
RoundDiv(x, scale) == (2 * x + scale) \div (2 * scale)

getExactHealth(token, world) ==
    LET actorAdapter == IF token.actorId # Null THEN world.actors[token.actorId] ELSE None
    IN IF token.actorId # Null /\ actorAdapter # None
       THEN [health |-> actorAdapter[1].health, maxHealth |-> actorAdapter[1].maxHealth,
             tempHealth |-> actorAdapter[1].tempHealth, accuracy |-> ONE_HUNDREDTHS]
       ELSE [health |-> 0, maxHealth |-> 1, tempHealth |-> 0, accuracy |-> ONE_HUNDREDTHS]

getObserverToken_ControlledOnly(world) ==
    IF Len(world.controlled) > 0 THEN <<world.controlled[1]>>
    ELSE None

getObserverToken(world) ==
    IF Len(world.controlled) > 0 THEN <<world.controlled[1]>>
    ELSE IF Len(world.owned) > 0 THEN <<world.owned[1]>>
    ELSE None

getPassivePerception_NoFloor(token, world) ==
    IF token.actorId = Null THEN BASE_PERCEPTION
    ELSE IF world.actors[token.actorId] = None THEN BASE_PERCEPTION
    ELSE LET pp == world.actors[token.actorId][1].passivePerception
         IN IF pp = None THEN BASE_PERCEPTION ELSE pp[1]

getPassivePerception(token, world) ==
    IF token.actorId = Null THEN BASE_PERCEPTION
    ELSE IF world.actors[token.actorId] = None THEN BASE_PERCEPTION
    ELSE LET pp == world.actors[token.actorId][1].passivePerception
             passivePerception == IF pp = None THEN BASE_PERCEPTION ELSE pp[1]
         IN Max(0, passivePerception)

calculateVariance(passivePerception) ==
    LET perceptionDiff == passivePerception - BASE_PERCEPTION
        variance == BASE_VARIANCE - (perceptionDiff * ACCURACY_CHANGE_PER_POINT)
    IN Max(MIN_VARIANCE, Min(MAX_VARIANCE, variance))

timeWindowOf_Rounded(now) == (2 * now + BUCKET_MS) \div (2 * BUCKET_MS)

timeWindowOf(now) == now \div BUCKET_MS

applyVariance_NoRaise(actualHealth, actualMaxHealth, actualTempHealth, variance, tokenId, now) ==
    LET seed == timeWindowOf(now) + (IF tokenId # <<>> THEN hashString(tokenId) ELSE 0)
        base(k) == ONE_MILLIONTHS - variance * 10000 + seededRandom(seed + k) * variance * 2
        small(k) == (seededRandom(seed + k) * 2 - 10000) * 5
    IN [health |-> Max(0, RoundDiv(actualHealth * (base(0) + small(3)), ONE_MILLIONTHS)),
        maxHealth |-> Max(1, RoundDiv(actualMaxHealth * (base(1) + small(4)), ONE_MILLIONTHS)),
        tempHealth |-> Max(0, RoundDiv(actualTempHealth * (base(2) + small(5)), ONE_MILLIONTHS))]

applyVariance(actualHealth, actualMaxHealth, actualTempHealth, variance, tokenId, now) ==
    LET timeWindow == timeWindowOf(now)
        tokenHash == IF tokenId # <<>> THEN hashString(tokenId) ELSE 0
        seed == timeWindow + tokenHash
        base(k) == ONE_MILLIONTHS - variance * 10000 + seededRandom(seed + k) * variance * 2
        small(k) == (seededRandom(seed + k) * 2 - 10000) * 5
        healthMultiplier == base(0) + small(3)
        maxHealthMultiplier == base(1) + small(4)
        tempHealthMultiplier == base(2) + small(5)
        h0 == Max(0, RoundDiv(actualHealth * healthMultiplier, ONE_MILLIONTHS))
        m0 == Max(1, RoundDiv(actualMaxHealth * maxHealthMultiplier, ONE_MILLIONTHS))
        t0 == Max(0, RoundDiv(actualTempHealth * tempHealthMultiplier, ONE_MILLIONTHS))
    IN [health |-> h0,
        maxHealth |-> IF h0 > m0 THEN h0 ELSE m0,
        tempHealth |-> t0]

obfuscateHealth_OwnerOnly(targetToken, isGM, world, now) ==
    IF targetToken.isOwnedByCurrentUser
    THEN getExactHealth(targetToken, world)
    ELSE LET observerToken == getObserverToken(world)
         IN IF observerToken = None
            THEN getExactHealth(targetToken, world)
            ELSE LET variance == calculateVariance(getPassivePerception(observerToken[1], world))
                     exactHealth == getExactHealth(targetToken, world)
                     o == applyVariance(exactHealth.health, exactHealth.maxHealth,
                                        exactHealth.tempHealth, variance,
                                        targetToken.id, now)
                 IN [health |-> o.health, maxHealth |-> o.maxHealth,
                     tempHealth |-> o.tempHealth, accuracy |-> ONE_HUNDREDTHS - variance]

obfuscateHealth(targetToken, isGM, world, now) ==
    IF isGM \/ targetToken.isOwnedByCurrentUser
    THEN getExactHealth(targetToken, world)
    ELSE LET observerToken == getObserverToken(world)
         IN IF observerToken = None
            THEN getExactHealth(targetToken, world)
            ELSE LET passivePerception == getPassivePerception(observerToken[1], world)
                     variance == calculateVariance(passivePerception)
                     accuracy == ONE_HUNDREDTHS - variance
                     exactHealth == getExactHealth(targetToken, world)
                     o == applyVariance(exactHealth.health, exactHealth.maxHealth,
                                        exactHealth.tempHealth, variance,
                                        targetToken.id, now)
                 IN [health |-> o.health, maxHealth |-> o.maxHealth,
                     tempHealth |-> o.tempHealth, accuracy |-> accuracy]

\* ---------------------------------------------------------------------
\* OverlayCoordinatorHelper: scope resolution
\* ---------------------------------------------------------------------
determineTargetTokens_OwnedIgnoresHidden(allTokens, targetScope, previewToken) ==
    CASE targetScope = "visible-and-not-hidden" ->
            SelectSeq(allTokens, LAMBDA token : token.visible /\ ~token.hidden)
      [] targetScope = "controlled" ->
            SelectSeq(allTokens, LAMBDA token : token.isControlledByCurrentUser)
      [] targetScope = "owned" ->
            SelectSeq(allTokens, LAMBDA token : token.isOwnedByCurrentUser /\ token.visible)
      [] targetScope = "all" -> allTokens
      [] targetScope = "non-controlled" ->
            SelectSeq(allTokens, LAMBDA token :
                token.visible /\ ~token.hidden /\ ~token.isControlledByCurrentUser)
      [] targetScope = "preview" ->
            IF previewToken # None THEN <<previewToken[1]>> ELSE <<>>
      [] OTHER -> SelectSeq(allTokens, LAMBDA token : token.visible)

determineTargetTokens(allTokens, targetScope, previewToken) ==
    CASE targetScope = "visible" ->
            SelectSeq(allTokens, LAMBDA token : token.visible)
      [] targetScope = "visible-and-not-hidden" ->
            SelectSeq(allTokens, LAMBDA token : token.visible /\ ~token.hidden)
      [] targetScope = "controlled" ->
            SelectSeq(allTokens, LAMBDA token : token.isControlledByCurrentUser)
      [] targetScope = "owned" ->
            SelectSeq(allTokens, LAMBDA token :
                token.isOwnedByCurrentUser /\ token.visible /\ ~token.hidden)
      [] targetScope = "all" -> allTokens
      [] targetScope = "non-controlled" ->
            SelectSeq(allTokens, LAMBDA token :
                token.visible /\ ~token.hidden /\ ~token.isControlledByCurrentUser)
      [] targetScope = "preview" ->
            IF previewToken # None THEN <<previewToken[1]>> ELSE <<>>
      [] OTHER -> SelectSeq(allTokens, LAMBDA token : token.visible)

getTargetTokens(allTokens, targetScope, previewToken) ==
    determineTargetTokens(allTokens, targetScope, previewToken)

\* ---------------------------------------------------------------------
\* OverlayRenderingService (presentation/services)
\*
\* svc.layerContainers       : the layer names that have a container
\* svc.overlayTypeContainers : overlay id -> layer its type container hangs on
\* svc.overlayInstances      : instance key -> index into svc.graphics
\* svc.graphics              : every PIXI.Graphics ever created, in creation
\*                             order: [name, parent, visible, destroyed, position]
\*   parent is None, <<"type", overlayTypeId>> or <<"mesh", tokenId>>
\* Operations that can throw return [ok, s].
\* ---------------------------------------------------------------------
Renderers == {STR_health_arc}
CanvasLayers == {"drawings", "tokens"}

createInstanceKey(tokenId, overlayTypeId) == tokenId \o <<CH_DASH>> \o overlayTypeId

findTokenOverlayKeys(s, tokenId) ==
    {key \in DOMAIN s.overlayInstances : startsWith(key, tokenId \o <<CH_DASH>>)}

findOverlayTypeKeys(s, overlayTypeId) ==
    {key \in DOMAIN s.overlayInstances : endsWith(key, <<CH_DASH>> \o overlayTypeId)}

validateOverlayType(reg, overlayTypeId) ==
    overlayTypeId \in DOMAIN reg /\ overlayTypeId \in Renderers

validateInitialised(s) == s.isInitialised /\ s.layerContainers # {}

getUniqueRenderLayers(reg) ==
    {"drawings", "tokens"} \cup
    {IF reg[o].renderLayer = Null THEN "drawings" ELSE reg[o].renderLayer : o \in DOMAIN reg}

validateCanvas(cv) == cv.stage

\* the layers of the canvas that exist, among those asked for
createLayerContainers(s, reg, cv) ==
    [s EXCEPT !.layerContainers = @ \cup (getUniqueRenderLayers(reg) \cap cv.layers)]

setupHooks(s) == [s EXCEPT !.hooks = TRUE]

\* the state performInitialisation leaves when it throws
\* marks the service initialised although no fallback container was made
createDefaultLayerContainer_NoThrow(s, cv) ==
    IF "tokens" \in cv.layers
    THEN [s EXCEPT !.layerContainers = @ \cup {"tokens"}, !.isInitialised = TRUE]
    ELSE [s EXCEPT !.isInitialised = TRUE]

createDefaultLayerContainer(s, cv) ==
    IF "tokens" \in cv.layers
    THEN [s EXCEPT !.layerContainers = @ \cup {"tokens"}, !.isInitialised = TRUE]
    ELSE s

\* the state it leaves, whether it returns or throws: validateCanvas
\* throws before anything is touched, createDefaultLayerContainer after
\* the hooks were set up
performInitialisation(s, reg, cv) ==
    IF ~validateCanvas(cv) THEN s
    ELSE IF setupHooks(createLayerContainers(s, reg, cv)).layerContainers # {}
    THEN [setupHooks(createLayerContainers(s, reg, cv)) EXCEPT !.isInitialised = TRUE]
    ELSE createDefaultLayerContainer(setupHooks(createLayerContainers(s, reg, cv)), cv)

getLayerContainer(s, layerName) ==
    IF layerName \in s.layerContainers THEN <<layerName>>
    ELSE IF "tokens" \in s.layerContainers THEN <<"tokens">>
    ELSE None

createTypeContainer(s, reg, overlayTypeId) ==
    IF overlayTypeId \notin DOMAIN reg THEN None
    ELSE getLayerContainer(s, IF reg[overlayTypeId].renderLayer = Null THEN "tokens"
                              ELSE reg[overlayTypeId].renderLayer)

getOrCreateTypeContainer(s, reg, overlayTypeId) ==
    IF ~validateInitialised(s) THEN [ok |-> FALSE, s |-> s]
    ELSE IF overlayTypeId \in DOMAIN s.overlayTypeContainers THEN [ok |-> TRUE, s |-> s]
    ELSE LET layer == createTypeContainer(s, reg, overlayTypeId)
         IN  IF layer = None THEN [ok |-> FALSE, s |-> s]
             ELSE [ok |-> TRUE,
                   s |-> [s EXCEPT !.overlayTypeContainers =
                                       MapSet(@, overlayTypeId, layer[1])]]

newGraphics(instanceKey, parent) ==
    [name |-> instanceKey, parent |-> parent, visible |-> TRUE,
     destroyed |-> FALSE, position |-> <<0, 0>>]

getOrCreateGraphicsInstance_AlwaysCreate(s, instanceKey, parent) ==
    [s EXCEPT !.graphics = Append(@, newGraphics(instanceKey, parent)),
              !.overlayInstances = MapSet(@, instanceKey, Len(s.graphics) + 1)]

getOrCreateGraphicsInstance(s, instanceKey, parent) ==
    IF instanceKey \notin DOMAIN s.overlayInstances
    THEN [s EXCEPT !.graphics = Append(@, newGraphics(instanceKey, parent)),
                   !.overlayInstances = MapSet(@, instanceKey, Len(s.graphics) + 1)]
    ELSE IF s.graphics[s.overlayInstances[instanceKey]].parent # parent
    THEN [s EXCEPT !.graphics[s.overlayInstances[instanceKey]].parent = parent]
    ELSE s

setPosition(s, instanceKey, position) ==
    [s EXCEPT !.graphics[s.overlayInstances[instanceKey]].position = position]

prepareLayerGraphics(s, reg, instanceKey, context) ==
    LET tc == getOrCreateTypeContainer(s, reg, context.overlayTypeId)
    IN  IF ~tc.ok THEN tc
        ELSE [ok |-> TRUE,
              s |-> setPosition(
                        getOrCreateGraphicsInstance(tc.s, instanceKey,
                                                    <<"type", context.overlayTypeId>>),
                        instanceKey, context.overlayCentre)]

getMesh(cv, tokenId) == tokenId \in DOMAIN cv.tokens /\ cv.tokens[tokenId].hasMesh

\* takes the layer path whether the token has a mesh or not
prepareTokenMeshGraphics_IgnoresMesh(s, reg, cv, instanceKey, context) ==
    prepareLayerGraphics(s, reg, instanceKey, context)

prepareTokenMeshGraphics(s, reg, cv, instanceKey, context) ==
    IF getMesh(cv, context.tokenId)
    THEN [ok |-> TRUE,
          s |-> setPosition(
                    getOrCreateGraphicsInstance(s, instanceKey, <<"mesh", context.tokenId>>),
                    instanceKey, <<0, 0>>)]
    ELSE prepareLayerGraphics(s, reg, instanceKey, context)

prepareGraphicsInstance(s, reg, cv, instanceKey, context) ==
    IF context.renderOnTokenMesh
    THEN prepareTokenMeshGraphics(s, reg, cv, instanceKey, context)
    ELSE prepareLayerGraphics(s, reg, instanceKey, context)

\* the body of the try block: [ok, s], ok = FALSE when it threw
\* renderer.render and graphics.visible = true on the prepared drawable
showPrepared(prep, instanceKey) ==
    IF ~prep.ok THEN prep
    ELSE [ok |-> TRUE,
          s |-> [prep.s EXCEPT
                    !.graphics[prep.s.overlayInstances[instanceKey]].visible = TRUE]]

tryRenderTokenOverlay(s, reg, cv, context) ==
    IF ~validateOverlayType(reg, context.overlayTypeId) THEN [ok |-> FALSE, s |-> s]
    ELSE showPrepared(
             prepareGraphicsInstance(s, reg, cv,
                 createInstanceKey(context.tokenId, context.overlayTypeId), context),
             createInstanceKey(context.tokenId, context.overlayTypeId))

\* context: [overlayTypeId, tokenId, renderOnTokenMesh, overlayCentre]
\* The result is [s, outcome, raised]: the service afterwards, what the call
\* did ("deferred", "rendered", or "failed" when the try block threw), and
\* whether an error left the call.
\* tried: what the try block did; rethrown: whether the catch throws on
tryOutcome(tried, rethrown) ==
    IF tried.ok THEN [s |-> tried.s, outcome |-> "rendered", raised |-> FALSE]
    ELSE [s |-> tried.s, outcome |-> "failed", raised |-> rethrown]

\* never short-circuits
deferRender_Never(s) == FALSE

\* the guard at the head of renderTokenOverlay
deferRender(s) == ~s.isInitialised

renderTokenOverlayResult_Rethrows(s, reg, cv, context) ==
    IF deferRender(s) THEN [s |-> s, outcome |-> "deferred", raised |-> FALSE]
    ELSE tryOutcome(tryRenderTokenOverlay(s, reg, cv, context), TRUE)

renderTokenOverlayResult(s, reg, cv, context) ==
    IF deferRender(s) THEN [s |-> s, outcome |-> "deferred", raised |-> FALSE]
    ELSE tryOutcome(tryRenderTokenOverlay(s, reg, cv, context), FALSE)

renderTokenOverlay(s, reg, cv, context) == renderTokenOverlayResult(s, reg, cv, context).s

destroyedGraphics(g) ==
    [g EXCEPT !.parent = None, !.visible = FALSE, !.destroyed = TRUE, !.position = <<0, 0>>]

destroyGraphicsInstances(s, keys) ==
    [s EXCEPT !.graphics = [i \in DOMAIN s.graphics |->
                               IF \E key \in keys : s.overlayInstances[key] = i
                               THEN destroyedGraphics(s.graphics[i]) ELSE s.graphics[i]],
              !.overlayInstances = [key \in DOMAIN s.overlayInstances \ keys |->
                                       s.overlayInstances[key]]]

clearTokenOverlay(s, overlayTypeId, tokenId) ==
    destroyGraphicsInstances(s, {createInstanceKey(tokenId, overlayTypeId)}
                                    \cap DOMAIN s.overlayInstances)

\* destroys the drawables and leaves their keys in the instance map
clearAllTokenOverlays_KeepsKeys(s, tokenId) ==
    [destroyGraphicsInstances(s, findTokenOverlayKeys(s, tokenId))
        EXCEPT !.overlayInstances = s.overlayInstances]

clearAllTokenOverlays(s, tokenId) ==
    destroyGraphicsInstances(s, findTokenOverlayKeys(s, tokenId))

removeChildren(s, overlayTypeId) ==
    IF overlayTypeId \notin DOMAIN s.overlayTypeContainers THEN s
    ELSE [s EXCEPT !.graphics = [i \in DOMAIN s.graphics |->
                  IF s.graphics[i].parent = <<"type", overlayTypeId>>
                  THEN [s.graphics[i] EXCEPT !.parent = None] ELSE s.graphics[i]]]

\* also drops the type container from the container map
clearOverlayType_DropsContainer(s, overlayTypeId) ==
    [removeChildren(destroyGraphicsInstances(s, findOverlayTypeKeys(s, overlayTypeId)),
                    overlayTypeId)
        EXCEPT !.overlayTypeContainers = MapDelete(@, overlayTypeId)]

clearOverlayType(s, overlayTypeId) ==
    removeChildren(destroyGraphicsInstances(s, findOverlayTypeKeys(s, overlayTypeId)),
                   overlayTypeId)

\* destroys the drawables and forgets to clear the instance map
destroyAllContainers_KeepsInstances(s) ==
    [destroyGraphicsInstances(s, DOMAIN s.overlayInstances)
        EXCEPT !.overlayInstances = s.overlayInstances,
               !.overlayTypeContainers = EmptyMap,
               !.layerContainers = {},
               !.isInitialised = FALSE]

destroyAllContainers(s) ==
    LET d == destroyGraphicsInstances(s, DOMAIN s.overlayInstances)
    IN  [d EXCEPT !.graphics = [i \in DOMAIN d.graphics |->
                      IF /\ d.graphics[i].parent # None
                         /\ d.graphics[i].parent[1] = "type"
                         /\ d.graphics[i].parent[2] \in DOMAIN d.overlayTypeContainers
                      THEN destroyedGraphics(d.graphics[i]) ELSE d.graphics[i]],
                  !.overlayTypeContainers = EmptyMap,
                  !.layerContainers = {},
                  !.isInitialised = FALSE]

\* hides by destroying the drawables
hideKeys_Destroys(s, keys) == destroyGraphicsInstances(s, keys)

hideKeys(s, keys) ==
    [s EXCEPT !.graphics = [i \in DOMAIN s.graphics |->
                               IF \E key \in keys : s.overlayInstances[key] = i
                               THEN [s.graphics[i] EXCEPT !.visible = FALSE]
                               ELSE s.graphics[i]]]

hideTokenOverlay(s, overlayTypeId, tokenId) ==
    hideKeys(s, {createInstanceKey(tokenId, overlayTypeId)} \cap DOMAIN s.overlayInstances)

hideAllOverlaysOfType(s, overlayTypeId) ==
    hideKeys(s, findOverlayTypeKeys(s, overlayTypeId))

handleCanvasTearDown(s) == destroyAllContainers(s)

handleCanvasReady(s, reg, cv) ==
    IF ~s.isInitialised THEN performInitialisation(s, reg, cv) ELSE s

handleDeleteToken(s, tokenId) == IF s.isInitialised THEN clearAllTokenOverlays(s, tokenId) ELSE s

\* ---------------------------------------------------------------------
\* Inputs of the pure services
\* ---------------------------------------------------------------------
MaxBucket == 1
MaxTokens == 2

STR_p == <<112>>
TokenIdAt(i) == <<96 + i>>

HealthValues == {-5, 0, 40, 90}
MaxHealthValues == {0, 1, 80}
TempHealthValues == {-3, 0, 10}
PerceptionValues == {None, <<-100>>, <<0>>, <<10>>, <<25>>, <<1000>>}
NowValues == {b * BUCKET_MS + off : b \in 0..MaxBucket, off \in {0, BUCKET_MS - 1}}

ActorIds == {"actor1", "actorGone", "obs", "obs2"}
FigureSet == [health : HealthValues, maxHealth : MaxHealthValues, tempHealth : TempHealthValues]
DefaultFigures == [health |-> 40, maxHealth |-> 80, tempHealth |-> 0]

mkActor(fig, pp) ==
    <<[health |-> fig.health, maxHealth |-> fig.maxHealth,
       tempHealth |-> fig.tempHealth, passivePerception |-> pp]>>

TargetChoices ==
    {[actorId |-> Null, fig |-> DefaultFigures], [actorId |-> "actorGone", fig |-> DefaultFigures]}
    \cup {[actorId |-> "actor1", fig |-> f] : f \in FigureSet}

ObserverChoices ==
    {[ctl |-> <<>>, pp |-> None],
     [ctl |-> <<[id |-> STR_p, actorId |-> Null]>>, pp |-> None],
     [ctl |-> <<[id |-> STR_p, actorId |-> "actorGone"]>>, pp |-> None]}
    \cup {[ctl |-> <<[id |-> STR_p, actorId |-> "obs"]>>, pp |-> q] : q \in PerceptionValues}

OwnedChoices == {<<>>, <<[id |-> STR_p, actorId |-> "obs2"]>>}

mkWorld(t, c, own) ==
    [controlled |-> c.ctl,
     owned |-> own,
     actors |-> [a \in ActorIds |->
                    CASE a = "actor1" -> mkActor(t.fig, None)
                      [] a = "actorGone" -> None
                      [] a = "obs" -> mkActor(DefaultFigures, c.pp)
                      [] a = "obs2" -> mkActor(DefaultFigures, <<20>>)]]

ScopeValues == {"visible", "visible-and-not-hidden", "controlled", "owned", "all",
                "non-controlled", "preview", "hovered", "bogus"}

TokenFlags == [visible : BOOLEAN, hidden : BOOLEAN,
               isControlledByCurrentUser : BOOLEAN, isOwnedByCurrentUser : BOOLEAN]

mkToken(id, f) ==
    [id |-> id, visible |-> f.visible, hidden |-> f.hidden,
     isControlledByCurrentUser |-> f.isControlledByCurrentUser,
     isOwnedByCurrentUser |-> f.isOwnedByCurrentUser]

TokenLists ==
    UNION {{[i \in 1..n |-> mkToken(TokenIdAt(i), fs[i])] : fs \in [1..n -> TokenFlags]}
           : n \in 0..MaxTokens}

\* ---------------------------------------------------------------------
\* Calls of the pure services: Init draws the inputs, the action applies
\* the function once
\* ---------------------------------------------------------------------
\* outside the engine specifications the engine is the constructed,
\* uninitialised service on an empty canvas
\* registered / unregistered: what the callers of the registry are owed,
\* the builder last registered under an id and the ids unregistered since
buildersConstructed ==
    [builders |-> EmptyMap, isInitialised |-> FALSE,
     registered |-> EmptyMap, unregistered |-> {}]

busConstructed == [listeners |-> EmptyMap, onceListeners |-> EmptyMap]

\* bound: the function objects the monitor has made with bind so far
monitorConstructed == [initialised |-> FALSE, bound |-> 0]

BusIdle ==
    /\ builders = buildersConstructed
    /\ bus = busConstructed
    /\ monitor = monitorConstructed

HostIdle ==
    /\ flags = [stored |-> EmptyMap, writes |-> {}]
    /\ tasks = {}
    /\ BusIdle

EngineIdle ==
    /\ canvas = [ready |-> FALSE, stage |-> FALSE, layers |-> {}, tokens |-> EmptyMap]
    /\ registry = EmptyMap
    /\ svc = [isInitialised |-> FALSE, hooks |-> FALSE, deferred |-> FALSE,
              layerContainers |-> {}, overlayTypeContainers |-> EmptyMap,
              overlayInstances |-> EmptyMap, graphics |-> <<>>]
    /\ kbd = [activeKeys |-> {}, mKeyOverlaysCache |-> EmptyMap,
              kKeyOverlaysCache |-> EmptyMap, renderedOverlays |-> EmptyMap]
    /\ drag = [previousBlocker |-> None, dragOverlaysCache |-> EmptyMap,
               renderedOverlays |-> EmptyMap]
    /\ helper = [renderedOverlays |-> EmptyMap, performed |-> {}]
    /\ press = [m |-> [types |-> {}, shown |-> {}, solo |-> TRUE],
                k |-> [types |-> {}, shown |-> {}, solo |-> TRUE]]
    /\ lastCall = [op |-> "constructed"]

ObfInputs ==
    {[targetToken |-> [id |-> TokenIdAt(i), isOwnedByCurrentUser |-> owned,
                       actorId |-> t.actorId],
      isGM |-> isGM, world |-> mkWorld(t, c, own), now |-> now, now2 |-> now2] :
        i \in 1..MaxTokens, owned \in BOOLEAN, isGM \in BOOLEAN,
        t \in TargetChoices, c \in ObserverChoices, own \in OwnedChoices,
        now \in NowValues, now2 \in NowValues}

PlainFlags == [visible |-> TRUE, hidden |-> FALSE,
               isControlledByCurrentUser |-> FALSE, isOwnedByCurrentUser |-> FALSE]

ScopeInputs ==
    {[allTokens |-> allTokens, targetScope |-> targetScope, previewToken |-> pv] :
        allTokens \in TokenLists, targetScope \in ScopeValues,
        pv \in {None, <<mkToken(STR_p, PlainFlags)>>, <<mkToken(TokenIdAt(1), PlainFlags)>>}}

InitObf ==
    /\ obfIn \in {<<x>> : x \in ObfInputs}
    /\ obfOut = None
    /\ obfOut2 = None
    /\ scIn = None
    /\ scOut = None
    /\ EngineIdle
    /\ HostIdle

InitScope ==
    /\ obfIn = None
    /\ obfOut = None
    /\ obfOut2 = None
    /\ scIn \in {<<x>> : x \in ScopeInputs}
    /\ scOut = None
    /\ EngineIdle
    /\ HostIdle

ObfuscateHealthCall ==
    /\ obfIn # None
    /\ obfOut = None
    /\ obfOut' = <<obfuscateHealth(obfIn[1].targetToken, obfIn[1].isGM,
                                   obfIn[1].world, obfIn[1].now)>>
    /\ obfOut2' = <<obfuscateHealth(obfIn[1].targetToken, obfIn[1].isGM,
                                    obfIn[1].world, obfIn[1].now2)>>
    /\ UNCHANGED <<obfIn, scIn, scOut, engineVars, hostVars>>

GetTargetTokensCall ==
    /\ scIn # None
    /\ scOut = None
    /\ scOut' = <<getTargetTokens(scIn[1].allTokens, scIn[1].targetScope,
                                  scIn[1].previewToken)>>
    /\ UNCHANGED <<obfIn, obfOut, obfOut2, scIn, engineVars, hostVars>>

NextObf == ObfuscateHealthCall
SpecObf == InitObf /\ [][NextObf]_vars

NextScope == GetTargetTokensCall
SpecScope == InitScope /\ [][NextScope]_vars

\* ---------------------------------------------------------------------
\* Properties of the Health Obfuscator
\* ---------------------------------------------------------------------
ObfCallDone == obfOut # None
ObfPrivileged == obfIn[1].isGM \/ obfIn[1].targetToken.isOwnedByCurrentUser
ObfHasObserver == Len(obfIn[1].world.controlled) > 0 \/ Len(obfIn[1].world.owned) > 0
ObfRawFigures ==
    LET id == obfIn[1].targetToken.actorId
    IN IF id # Null /\ obfIn[1].world.actors[id] # None
       THEN LET a == obfIn[1].world.actors[id][1]
            IN [health |-> a.health, maxHealth |-> a.maxHealth, tempHealth |-> a.tempHealth]
       ELSE [health |-> 0, maxHealth |-> 1, tempHealth |-> 0]
ObfObserverPerception ==
    LET w == obfIn[1].world
        tok == IF Len(w.controlled) > 0 THEN w.controlled[1] ELSE w.owned[1]
    IN IF tok.actorId = Null THEN 10
       ELSE IF w.actors[tok.actorId] = None THEN 10
       ELSE IF w.actors[tok.actorId][1].passivePerception = None THEN 10
       ELSE w.actors[tok.actorId][1].passivePerception[1]
Figures(r) == [health |-> r.health, maxHealth |-> r.maxHealth, tempHealth |-> r.tempHealth]
WithinBounds(r) ==
    /\ 0 <= r.health
    /\ r.health <= r.maxHealth
    /\ r.maxHealth >= 1
    /\ r.tempHealth >= 0

\* C5 (as stated): for all inputs the returned figures satisfy
\* 0 <= health <= maxHealth, maxHealth >= 1 and tempHealth >= 0.
C5_AllInputsWithinBounds == ObfCallDone => WithinBounds(obfOut[1])

\* C5 (amended): the bounds hold for every call that takes the obfuscated path
\* (unprivileged viewer with an observer token), and on the exact path
\* (privileged viewer or no observer) whenever the actor's raw figures, or the
\* 0/1/0 defaults of a missing actor, satisfy them.
C5_ObfuscatedWithinBounds ==
    ObfCallDone =>
        /\ (~ObfPrivileged /\ ObfHasObserver) => WithinBounds(obfOut[1])
        /\ ((ObfPrivileged \/ ~ObfHasObserver) /\ WithinBounds(ObfRawFigures))
              => WithinBounds(obfOut[1])

C5_Witness ==
    /\ ObfCallDone
    /\ ~ObfPrivileged /\ ObfHasObserver
    /\ ObfRawFigures.health > ObfRawFigures.maxHealth
    /\ ObfRawFigures.tempHealth < 0
    /\ obfOut[1].health > 1
    /\ WithinBounds(obfOut[1])

\* C6: for a GM or an owner of the target, obfuscateHealth returns accuracy 1
\* and the actor's raw figures, whatever the observer and the time bucket.
C6_PrivilegedExact ==
    (ObfCallDone /\ ObfPrivileged) =>
        /\ obfOut[1].accuracy = 100
        /\ Figures(obfOut[1]) = ObfRawFigures
        /\ obfOut2[1] = obfOut[1]

C6_Witness ==
    /\ ObfCallDone
    /\ obfIn[1].isGM /\ ~obfIn[1].targetToken.isOwnedByCurrentUser
    /\ Len(obfIn[1].world.controlled) > 0
    /\ ObfObserverPerception = 0
    /\ obfIn[1].targetToken.actorId = "actor1"
    /\ obfIn[1].now \div 60000 # obfIn[1].now2 \div 60000
    /\ obfOut[1].accuracy = 100
    /\ obfOut[1].health = 90

C8_AccuracyInUnitInterval ==
    ObfCallDone => (0 <= obfOut[1].accuracy /\ obfOut[1].accuracy <= 100)

C8_Witness ==
    /\ ObfCallDone
    /\ ~ObfPrivileged
    /\ Len(obfIn[1].world.controlled) > 0
    /\ ObfObserverPerception = -100
    /\ obfOut[1].accuracy = 50

\* C9: two calls for the same token, actor figures and observer whose clock
\* readings fall in the same 60000 ms bucket return identical figures.
C9_SameBucketSameFigures ==
    (ObfCallDone /\ obfIn[1].now \div 60000 = obfIn[1].now2 \div 60000) =>
        Figures(obfOut[1]) = Figures(obfOut2[1])

C9_Witness ==
    /\ ObfCallDone
    /\ ~ObfPrivileged /\ ObfHasObserver
    /\ obfIn[1].now # obfIn[1].now2
    /\ obfIn[1].now \div 60000 = obfIn[1].now2 \div 60000
    /\ Figures(obfOut[1]) # ObfRawFigures
    /\ Figures(obfOut[1]) = Figures(obfOut2[1])

\* ---------------------------------------------------------------------
\* Properties of scope resolution
\* ---------------------------------------------------------------------
ScopePredicate(S, t) ==
    CASE S = "visible" -> t.visible
      [] S = "visible-and-not-hidden" -> t.visible /\ ~t.hidden
      [] S = "controlled" -> t.isControlledByCurrentUser
      [] S = "owned" -> t.isOwnedByCurrentUser /\ t.visible /\ ~t.hidden
      [] S = "non-controlled" -> t.visible /\ ~t.hidden /\ ~t.isControlledByCurrentUser
      [] S = "all" -> TRUE
      [] OTHER -> t.visible

ScopeExpected ==
    IF scIn[1].targetScope = "preview"
    THEN (IF scIn[1].previewToken # None THEN <<scIn[1].previewToken[1]>> ELSE <<>>)
    ELSE SelectSeq(scIn[1].allTokens, LAMBDA t : ScopePredicate(scIn[1].targetScope, t))

\* C10 (as stated): getTargetTokens returns a subset of T containing exactly
\* the tokens that satisfy the scope's predicate (preview: the preview token
\* or empty), so that owned is contained in visible-and-not-hidden.
C10_SubsetOfTokenSet ==
    scOut # None =>
        /\ Range(scOut[1]) \subseteq Range(scIn[1].allTokens)
        /\ scOut[1] = ScopeExpected

\* C10 (amended): for every scope other than preview the result is the
\* subsequence of T satisfying the scope's predicate; for preview it is the
\* supplied preview token alone, whether or not that token belongs to T, or
\* empty when none is supplied; owned is contained in visible-and-not-hidden.
C10_ScopePartition ==
    scOut # None =>
        /\ scOut[1] = ScopeExpected
        /\ scIn[1].targetScope # "preview" => Range(scOut[1]) \subseteq Range(scIn[1].allTokens)
        /\ scIn[1].targetScope = "owned" =>
              \A t \in Range(scOut[1]) : t.visible /\ ~t.hidden

C10_Witness ==
    /\ scOut # None
    /\ scIn[1].targetScope = "preview"
    /\ scIn[1].previewToken # None
    /\ scIn[1].previewToken[1] \notin Range(scIn[1].allTokens)
    /\ Len(scIn[1].allTokens) = 2
    /\ scOut[1] = <<scIn[1].previewToken[1]>>

\* ---------------------------------------------------------------------
\* The overlay engine: host canvas, registered overlay definitions
\* ---------------------------------------------------------------------
MaxGraphics == 3

TokenIds == {STR_a, STR_b}
TokenOrder == <<STR_a, STR_b>>
tokenCentre(tokenId) == IF tokenId = STR_a THEN <<1, 1>> ELSE <<2, 2>>

HostTokens ==
    [hasMesh : BOOLEAN, visible : {TRUE}, hidden : BOOLEAN,
     isControlledByCurrentUser : {FALSE}, isOwnedByCurrentUser : {FALSE}]

RenderHostTokens == {t \in HostTokens : ~t.hidden}

\* a canvas with its layers, one without a drawings layer, one with no layer
RenderCanvasLayers == {CanvasLayers, {"tokens"}, {}}

NoTriggers == [keyPress |-> None, tokenDragStart |-> None, tokenDragMove |-> None]

\* domain/overlays: HealthArcDefinition and TokenInfoDefinition
HealthArcDefinition ==
    [id |-> STR_health_arc, renderLayer |-> "drawings", renderOnTokenMesh |-> FALSE,
     contextBuilder |-> Null,
     triggers |-> [NoTriggers EXCEPT !.keyPress =
                      <<[keys |-> {"m"}, scope |-> "visible-and-not-hidden"]>>]]

TokenInfoDefinition ==
    [id |-> STR_token_info, renderLayer |-> "drawings", renderOnTokenMesh |-> FALSE,
     contextBuilder |-> Null,
     triggers |-> [NoTriggers EXCEPT !.keyPress =
                      <<[keys |-> {"k"}, scope |-> "visible-and-not-hidden"]>>]]

registerAll(definitions) ==
    [o \in {d.id : d \in definitions} |-> CHOOSE d \in definitions : d.id = o]

DefaultRegistry == registerAll({HealthArcDefinition, TokenInfoDefinition})

\* the health arc on a layer the canvas does not have
WeatherRegistry ==
    registerAll({[HealthArcDefinition EXCEPT !.renderLayer = "weather"],
                 TokenInfoDefinition})

RenderRegistries == {DefaultRegistry, WeatherRegistry}
RenderOverlayIds == {STR_health_arc, STR_arc, STR_token_info}

svcConstructed ==
    [isInitialised |-> FALSE, hooks |-> FALSE, deferred |-> FALSE,
     layerContainers |-> {}, overlayTypeContainers |-> EmptyMap,
     overlayInstances |-> EmptyMap, graphics |-> <<>>]

kbdConstructed ==
    [activeKeys |-> {}, mKeyOverlaysCache |-> EmptyMap,
     kKeyOverlaysCache |-> EmptyMap, renderedOverlays |-> EmptyMap]

dragConstructed ==
    [previousBlocker |-> None, dragOverlaysCache |-> EmptyMap,
     renderedOverlays |-> EmptyMap]

\* performed is history: the <<tokenId, overlayId>> pairs the service drew
\* for the helper since their tracking was last hidden or cleared
helperConstructed == [renderedOverlays |-> EmptyMap, performed |-> {}]

noPress == [types |-> {}, shown |-> {}, solo |-> TRUE]
pressConstructed == [m |-> noPress, k |-> noPress]

PureIdle ==
    /\ obfIn = None /\ obfOut = None /\ obfOut2 = None
    /\ scIn = None /\ scOut = None

Called(op) == [op |-> op, key |-> <<>>, existed |-> FALSE, created |-> 0]

hiddenDrawables(before, after) ==
    {before.graphics[i].name : i \in {j \in DOMAIN before.graphics :
        before.graphics[j].visible /\ ~after.graphics[j].visible}}

\* the names of the drawables an operation changed or destroyed
touchedDrawables(before, after) ==
    {before.graphics[i].name : i \in {j \in DOMAIN before.graphics :
        after.graphics[j] # before.graphics[j]}}

visibleAmong(s, keys) ==
    {key \in keys \cap DOMAIN s.overlayInstances :
        s.graphics[s.overlayInstances[key]].visible}

\* between two states of the service nothing but visibility has changed,
\* and visibility only from shown to hidden
onlyHides(before, after) ==
    /\ [after EXCEPT !.graphics = before.graphics] = before
    /\ DOMAIN after.graphics = DOMAIN before.graphics
    /\ \A i \in DOMAIN before.graphics :
          /\ [after.graphics[i] EXCEPT !.visible = before.graphics[i].visible]
                 = before.graphics[i]
          /\ after.graphics[i].visible => before.graphics[i].visible

\* what a hide, clear or teardown operation did: after is the service it
\* left, nothingTracked whether it found nothing to act on, changed whether
\* it changed the state of its component, repeatChanged whether the same
\* call made once more right after it changes that state again
Lifecycle(op, after, nothingTracked, changed, repeatChanged) ==
    [op |-> op,
     onlyHides |-> onlyHides(svc, after),
     nothingTracked |-> nothingTracked,
     changed |-> changed,
     repeatChanged |-> repeatChanged]

\* ---------------------------------------------------------------------
\* The Rendering Service under its public operations and the host's
\* canvas and token events
\* ---------------------------------------------------------------------
InitRender ==
    /\ PureIdle
    /\ HostIdle
    /\ canvas \in [ready : BOOLEAN, stage : BOOLEAN, layers : RenderCanvasLayers,
                   tokens : [TokenIds -> RenderHostTokens]]
    /\ registry \in RenderRegistries
    /\ svc = svcConstructed
    /\ kbd = kbdConstructed
    /\ drag = dragConstructed
    /\ helper = helperConstructed
    /\ press = pressConstructed
    /\ lastCall = Called("constructed")

\* OverlayRenderingService.initialise, called once at start-up
canInitialise(cv) == cv.ready

\* a one-time listener for the host's canvasReady is left behind
deferInitialisation(s) == [s EXCEPT !.deferred = TRUE]

\* initialises at once, whatever the canvas
initialise_NeverDefers(s, reg, cv) == performInitialisation(s, reg, cv)

initialise(s, reg, cv) ==
    IF canInitialise(cv) THEN performInitialisation(s, reg, cv)
    ELSE deferInitialisation(s)

Initialise ==
    /\ ~svc.hooks /\ ~svc.deferred
    /\ svc' = initialise(svc, registry, canvas)
    /\ lastCall' = Called("initialise")
    /\ UNCHANGED <<pureVars, hostVars, helper, canvas, registry, kbd, drag, press>>

\* the host draws a canvas, the one it had or one of another scene: the
\* deferred initialisation runs once, then the canvasReady handler if the
\* hooks were set up before
CanvasReady ==
    /\ ~canvas.ready
    /\ \E stage \in BOOLEAN, layers \in RenderCanvasLayers :
          canvas' = [canvas EXCEPT !.ready = TRUE, !.stage = stage, !.layers = layers]
    /\ svc' = LET d == IF svc.deferred
                       THEN performInitialisation([svc EXCEPT !.deferred = FALSE], registry,
                                                  canvas')
                       ELSE svc
              IN  IF svc.hooks THEN handleCanvasReady(d, registry, canvas') ELSE d
    /\ lastCall' = [op |-> "canvasReady", handled |-> svc.hooks \/ svc.deferred,
                    deferred |-> svc.deferred,
                    afterFailure |-> /\ svc.hooks
                                     /\ ~performInitialisation(svc, registry, canvas)
                                            .isInitialised]
    /\ UNCHANGED <<pureVars, hostVars, helper, registry, kbd, drag, press>>

\* the host tears the canvas down; the notification reaches the service
\* once its hooks are set up
CanvasTearDown ==
    /\ canvas' = [canvas EXCEPT !.ready = FALSE]
    /\ svc' = IF svc.hooks THEN handleCanvasTearDown(svc) ELSE svc
    /\ lastCall' = [handled |-> svc.hooks] @@
                    Lifecycle("canvasTearDown", svc',
                              /\ svc.overlayInstances = EmptyMap
                              /\ svc.overlayTypeContainers = EmptyMap
                              /\ svc.layerContainers = {},
                              svc' # svc,
                              svc.hooks /\ handleCanvasTearDown(svc') # svc')
    /\ UNCHANGED <<pureVars, hostVars, helper, registry, kbd, drag, press>>

\* what a clear of one token's overlays did: the drawables the instance
\* map held for the token before, and whether the service acted
Cleared(op, tokenId, acted, after) ==
    [tokenId |-> tokenId, acted |-> acted,
     cleared |-> {svc.overlayInstances[key] : key \in findTokenOverlayKeys(svc, tokenId)}]
    @@ Lifecycle(op, after, findTokenOverlayKeys(svc, tokenId) = {}, after # svc,
                 acted /\ clearAllTokenOverlays(after, tokenId) # after)

DeleteToken ==
    \E tokenId \in DOMAIN canvas.tokens :
        /\ canvas' = [canvas EXCEPT !.tokens = MapDelete(@, tokenId)]
        /\ svc' = IF svc.hooks THEN handleDeleteToken(svc, tokenId) ELSE svc
        /\ lastCall' = Cleared("deleteToken", tokenId, svc.hooks /\ svc.isInitialised, svc')
        /\ UNCHANGED <<pureVars, hostVars, helper, registry, kbd, drag, press>>

CreateToken ==
    \E tokenId \in TokenIds \ DOMAIN canvas.tokens, t \in RenderHostTokens :
        /\ canvas' = [canvas EXCEPT !.tokens = MapSet(@, tokenId, t)]
        /\ lastCall' = Called("createToken")
        /\ UNCHANGED <<pureVars, hostVars, helper, registry, svc, kbd, drag, press>>

RenderContexts ==
    {[overlayTypeId |-> o, tokenId |-> t, renderOnTokenMesh |-> m,
      overlayCentre |-> tokenCentre(t)] :
        o \in RenderOverlayIds, t \in TokenIds, m \in BOOLEAN}

RenderTokenOverlay ==
    \E context \in RenderContexts :
    \E r \in {renderTokenOverlayResult(svc, registry, canvas, context)} :
        LET key == createInstanceKey(context.tokenId, context.overlayTypeId)
            after == r.s
        IN  /\ Len(after.graphics) <= MaxGraphics
            /\ svc' = after
            /\ lastCall' = [op |-> "renderTokenOverlay", key |-> key,
                            existed |-> key \in DOMAIN svc.overlayInstances,
                            wasHidden |-> /\ key \in DOMAIN svc.overlayInstances
                                          /\ ~svc.graphics[svc.overlayInstances[key]].visible,
                            reused |-> /\ key \in DOMAIN svc.overlayInstances
                                       /\ key \in DOMAIN after.overlayInstances
                                       /\ after.overlayInstances[key] =
                                              svc.overlayInstances[key],
                            created |-> Len(after.graphics) - Len(svc.graphics),
                            overlayTypeId |-> context.overlayTypeId,
                            initialised |-> svc.isInitialised,
                            outcome |-> r.outcome, raised |-> r.raised,
                            changed |-> after # svc,
                            context |-> context,
                            parentBefore |-> IF key \in DOMAIN svc.overlayInstances
                                             THEN svc.graphics[svc.overlayInstances[key]].parent
                                             ELSE None]
            /\ UNCHANGED <<pureVars, hostVars, helper, canvas, registry, kbd, drag, press>>

HideTokenOverlay ==
    \E o \in RenderOverlayIds, t \in TokenIds :
        /\ svc' = hideTokenOverlay(svc, o, t)
        /\ lastCall' = Lifecycle("hideTokenOverlay", svc',
                                 createInstanceKey(t, o) \notin DOMAIN svc.overlayInstances,
                                 svc' # svc, hideTokenOverlay(svc', o, t) # svc')
        /\ UNCHANGED <<pureVars, hostVars, helper, canvas, registry, kbd, drag, press>>

HideAllOverlaysOfType ==
    \E o \in RenderOverlayIds :
        /\ svc' = hideAllOverlaysOfType(svc, o)
        /\ lastCall' = Lifecycle("hideAllOverlaysOfType", svc',
                                 findOverlayTypeKeys(svc, o) = {}, svc' # svc,
                                 hideAllOverlaysOfType(svc', o) # svc')
                           @@ [named |-> o, touched |-> touchedDrawables(svc, svc')]
        /\ UNCHANGED <<pureVars, hostVars, helper, canvas, registry, kbd, drag, press>>

ClearTokenOverlay ==
    \E o \in RenderOverlayIds, t \in TokenIds :
        /\ svc' = clearTokenOverlay(svc, o, t)
        /\ lastCall' = Lifecycle("clearTokenOverlay", svc',
                                 createInstanceKey(t, o) \notin DOMAIN svc.overlayInstances,
                                 svc' # svc, clearTokenOverlay(svc', o, t) # svc')
        /\ UNCHANGED <<pureVars, hostVars, helper, canvas, registry, kbd, drag, press>>

ClearAllTokenOverlays ==
    \E t \in TokenIds :
        /\ svc' = clearAllTokenOverlays(svc, t)
        /\ lastCall' = Cleared("clearAllTokenOverlays", t, TRUE, svc')
                           @@ [named |-> t, touched |-> touchedDrawables(svc, svc')]
        /\ UNCHANGED <<pureVars, hostVars, helper, canvas, registry, kbd, drag, press>>

ClearOverlayType ==
    \E o \in RenderOverlayIds :
        /\ svc' = clearOverlayType(svc, o)
        /\ lastCall' = Lifecycle("clearOverlayType", svc',
                                 findOverlayTypeKeys(svc, o) = {}, svc' # svc,
                                 clearOverlayType(svc', o) # svc')
                           @@ [named |-> o, touched |-> touchedDrawables(svc, svc')]
        /\ UNCHANGED <<pureVars, hostVars, helper, canvas, registry, kbd, drag, press>>

NextRender ==
    \/ Initialise
    \/ CanvasReady
    \/ CanvasTearDown
    \/ DeleteToken
    \/ CreateToken
    \/ RenderTokenOverlay
    \/ HideTokenOverlay
    \/ HideAllOverlaysOfType
    \/ ClearTokenOverlay
    \/ ClearAllTokenOverlays
    \/ ClearOverlayType

SpecRender == InitRender /\ [][NextRender]_vars

\* ---------------------------------------------------------------------
\* Properties of the Rendering Service
\* ---------------------------------------------------------------------
LiveGraphics == {i \in DOMAIN svc.graphics : ~svc.graphics[i].destroyed}

DrawablesNamed(key) == {i \in LiveGraphics : svc.graphics[i].name = key}

\* C1: after any sequence of renders, hides, clears and canvas
\* teardown/ready events there is at most one live drawable per instance
\* key; it is the one the instance map holds under that key and it hangs on
\* exactly one parent; a render of a key that already has a drawable
\* creates none, and after a render that acted exactly one drawable of
\* that key exists.
C1_OneDrawablePerKey ==
    /\ \A i \in LiveGraphics :
          /\ Cardinality(DrawablesNamed(svc.graphics[i].name)) = 1
          /\ svc.graphics[i].name \in DOMAIN svc.overlayInstances
          /\ svc.overlayInstances[svc.graphics[i].name] = i
          /\ svc.graphics[i].parent # None
    /\ \A key \in DOMAIN svc.overlayInstances :
          svc.overlayInstances[key] \in DrawablesNamed(key)
    /\ lastCall.op = "renderTokenOverlay" =>
          /\ lastCall.existed => lastCall.created = 0
          /\ lastCall.created <= 1
          /\ lastCall.created = 1 => Cardinality(DrawablesNamed(lastCall.key)) = 1

\* the same pair has been rendered again: one drawable, none created
C1_Witness ==
    /\ lastCall.op = "renderTokenOverlay"
    /\ lastCall.existed
    /\ lastCall.created = 0
    /\ Cardinality(DrawablesNamed(lastCall.key)) = 1
    /\ Len(svc.graphics) >= 2

\* C12: clearAllTokenOverlays(tokenId), called directly or by the
\* deleteToken handler of an initialised service, leaves no instance-map
\* entry whose key starts with the token id and has destroyed every
\* drawable those entries held; the instance map never holds a destroyed
\* drawable, so a later render of a pair of that token creates a new
\* drawable and maps the key to it.
C12_ClearTokenThenFresh ==
    /\ (lastCall.op \in {"clearAllTokenOverlays", "deleteToken"} /\ lastCall.acted) =>
          /\ findTokenOverlayKeys(svc, lastCall.tokenId) = {}
          /\ \A i \in lastCall.cleared :
                svc.graphics[i].destroyed /\ svc.graphics[i].parent = None
    /\ \A key \in DOMAIN svc.overlayInstances :
          ~svc.graphics[svc.overlayInstances[key]].destroyed
    /\ (/\ lastCall.op = "renderTokenOverlay"
        /\ lastCall.outcome = "rendered"
        /\ ~lastCall.existed) =>
          /\ lastCall.created = 1
          /\ svc.overlayInstances[lastCall.key] = Len(svc.graphics)
          /\ svc.graphics[Len(svc.graphics)].visible

\* a pair of a cleared token has been rendered again: its old drawable is
\* destroyed, a new one is mapped
C12_Witness ==
    /\ lastCall.op = "renderTokenOverlay"
    /\ lastCall.outcome = "rendered"
    /\ lastCall.created = 1
    /\ \E i \in DOMAIN svc.graphics :
          /\ svc.graphics[i].destroyed
          /\ svc.graphics[i].name = lastCall.key
          /\ svc.overlayInstances[lastCall.key] # i

RenderCalled == lastCall.op = "renderTokenOverlay"

\* C15 as stated: renderTokenOverlay, called on an initialised service
\* with an overlay type that is not registered or has no paint strategy,
\* throws to its caller.
C15_UnknownTypeThrows ==
    (/\ RenderCalled
     /\ lastCall.initialised
     /\ ~validateOverlayType(registry, lastCall.overlayTypeId)) => lastCall.raised

\* C15: renderTokenOverlay returns without rendering when the service is
\* not initialised; otherwise it validates that the overlay type is
\* registered and has a paint strategy, and when it is not, the call
\* renders nothing, leaves the service as it was and returns normally: no
\* error ever leaves renderTokenOverlay.
C15_UnknownTypeSkipped ==
    RenderCalled =>
        /\ ~lastCall.raised
        /\ ~lastCall.initialised => (lastCall.outcome = "deferred" /\ ~lastCall.changed)
        /\ (lastCall.initialised /\ ~validateOverlayType(registry, lastCall.overlayTypeId))
              => (lastCall.outcome = "failed" /\ ~lastCall.changed)
        /\ lastCall.outcome = "rendered" =>
              /\ lastCall.initialised
              /\ validateOverlayType(registry, lastCall.overlayTypeId)

\* an initialised service that holds drawables was asked for an overlay
\* type it cannot paint
C15_Witness ==
    /\ RenderCalled
    /\ lastCall.initialised
    /\ lastCall.overlayTypeId \in DOMAIN registry
    /\ lastCall.overlayTypeId \notin Renderers
    /\ lastCall.outcome = "failed"
    /\ svc.overlayInstances # EmptyMap

\* C29: a render requested while the service is uninitialised is deferred:
\* it creates no drawable, leaves the service and its three maps as they
\* were and raises nothing; and whatever requests came before, a request
\* for a registered overlay type with a paint strategy renders once the
\* service is initialised.
C29_DeferredThenRecoverable ==
    RenderCalled =>
        /\ ~lastCall.initialised =>
              /\ lastCall.outcome = "deferred"
              /\ lastCall.created = 0
              /\ ~lastCall.changed
              /\ ~lastCall.raised
        /\ (lastCall.initialised /\ validateOverlayType(registry, lastCall.overlayTypeId)) =>
              /\ lastCall.outcome = "rendered"
              /\ lastCall.key \in DOMAIN svc.overlayInstances
              /\ svc.graphics[svc.overlayInstances[lastCall.key]].visible

\* a paintable overlay was requested of a service that had been torn down
\* or had failed to initialise
C29_Witness ==
    /\ RenderCalled
    /\ ~lastCall.initialised
    /\ lastCall.outcome = "deferred"
    /\ validateOverlayType(registry, lastCall.overlayTypeId)
    /\ svc.hooks
    /\ svc.overlayInstances = EmptyMap

\* C16: whatever initialise(), canvas-ready and canvas-teardown
\* notifications and failed initialisation attempts came before, a service
\* that is initialised has at least one layer container.
C16_InitialisedHasLayer ==
    svc.isInitialised => svc.layerContainers # {}

\* the service has initialised on a canvas after the attempt on the canvas
\* drawn before had failed
C16_Witness ==
    /\ lastCall.op = "canvasReady"
    /\ lastCall.afterFailure
    /\ svc.isInitialised
    /\ svc.layerContainers # {}

\* C17: after a canvas teardown the service has handled, every drawable it
\* ever made is destroyed, the instance, type-container and layer-container
\* maps are empty and the service is uninitialised; the next canvas-ready
\* it handles on a canvas with a stage and a tokens layer initialises it
\* again; and a render that acted leaves the key mapped to a live drawable
\* under a type container the service holds, newly created when the key had
\* none.
C17_TeardownThenFresh ==
    /\ (lastCall.op = "canvasTearDown" /\ lastCall.handled) =>
          /\ svc.overlayInstances = EmptyMap
          /\ svc.overlayTypeContainers = EmptyMap
          /\ svc.layerContainers = {}
          /\ ~svc.isInitialised
          /\ \A i \in DOMAIN svc.graphics :
                svc.graphics[i].destroyed /\ svc.graphics[i].parent = None
    /\ (/\ lastCall.op = "canvasReady"
        /\ lastCall.handled
        /\ canvas.stage
        /\ "tokens" \in canvas.layers) => svc.isInitialised
    /\ (RenderCalled /\ lastCall.outcome = "rendered") =>
          /\ lastCall.key \in DOMAIN svc.overlayInstances
          /\ ~svc.graphics[svc.overlayInstances[lastCall.key]].destroyed
          /\ svc.graphics[svc.overlayInstances[lastCall.key]].parent[1] = "type" =>
                /\ svc.graphics[svc.overlayInstances[lastCall.key]].parent[2]
                       \in DOMAIN svc.overlayTypeContainers
                /\ svc.overlayTypeContainers[
                       svc.graphics[svc.overlayInstances[lastCall.key]].parent[2]]
                       \in svc.layerContainers
          /\ ~lastCall.existed =>
                (lastCall.created = 1 /\ svc.overlayInstances[lastCall.key] = Len(svc.graphics))

\* after a teardown that destroyed drawables and a new canvas-ready, a pair
\* torn down before is rendered again, on a drawable made for it
C17_Witness ==
    /\ RenderCalled
    /\ lastCall.outcome = "rendered"
    /\ lastCall.created = 1
    /\ DOMAIN svc.overlayInstances = {lastCall.key}
    /\ DOMAIN svc.overlayTypeContainers = {lastCall.overlayTypeId}
    /\ \E i \in DOMAIN svc.graphics :
          /\ svc.graphics[i].destroyed
          /\ svc.graphics[i].name = lastCall.key
    /\ \E i \in DOMAIN svc.graphics :
          /\ svc.graphics[i].destroyed
          /\ svc.graphics[i].name # lastCall.key

\* ---------------------------------------------------------------------
\* OverlayRegistry, OverlayContextBuilderRegistry, TokenRepository
\* ---------------------------------------------------------------------
\* order in which definitions were registered
OverlayOrder == <<STR_health_arc, STR_token_info, STR_arc, STR_obstacle_indicator>>

getAll(reg) ==
    LET ids == SelectSeq(OverlayOrder, LAMBDA o : o \in DOMAIN reg)
    IN  [i \in DOMAIN ids |-> reg[ids[i]]]

toLowerCase(key) ==
    CASE key = "M" -> "m"
      [] key = "K" -> "k"
      [] OTHER -> key

filterByKeyTrigger(reg, triggerKey) ==
    SelectSeq(getAll(reg), LAMBDA overlay :
        /\ overlay.triggers.keyPress # None
        /\ overlay.triggers.keyPress[1].keys # {}
        /\ toLowerCase(triggerKey) \in overlay.triggers.keyPress[1].keys)

filterByTrigger(reg, trigger) ==
    SelectSeq(getAll(reg), LAMBDA overlay :
        /\ overlay.triggers[trigger] # None
        /\ trigger = "keyPress" => overlay.triggers[trigger][1].keys # {})

\* the default builders, registered on first access
contextBuilderRegistryGet(id) ==
    CASE id = STR_health_arc -> "HealthArcContextBuilder"
      [] id = STR_token_info -> "TokenInfoContextBuilder"
      [] OTHER -> Null

\* the overlay type a context builder puts into the context it builds
builtOverlayTypeId(builder) ==
    IF builder = "HealthArcContextBuilder" THEN STR_health_arc ELSE STR_token_info

\* a builder supplied with a custom overlay whose buildContext throws
buildContextThrows(builder) == builder = "FailingContextBuilder"

tokenOf(cv, tokenId) ==
    [id |-> tokenId, visible |-> cv.tokens[tokenId].visible,
     hidden |-> cv.tokens[tokenId].hidden,
     isControlledByCurrentUser |-> cv.tokens[tokenId].isControlledByCurrentUser,
     isOwnedByCurrentUser |-> cv.tokens[tokenId].isOwnedByCurrentUser]

tokenRepositoryGetAll(cv) ==
    LET ids == SelectSeq(TokenOrder, LAMBDA t : t \in DOMAIN cv.tokens)
    IN  IF ~cv.ready THEN <<>> ELSE [i \in DOMAIN ids |-> tokenOf(cv, ids[i])]

\* ---------------------------------------------------------------------
\* OverlayCoordinatorHelper (application/coordinators/helpers)
\*
\* A helper state st is [svc, renderedOverlays, groups, requested,
\* performed, raised]: the rendering service, the helper's tracking map,
\* the groups processed so far, the instance keys whose rendering was
\* requested, the <<tokenId, overlayId>> pairs whose request drew a
\* drawable, and whether an error has left the call.
\* ---------------------------------------------------------------------
scopeOf(overlay, triggerType) ==
    IF /\ triggerType # Null
       /\ triggerType \in DOMAIN overlay.triggers
       /\ overlay.triggers[triggerType] # None
       /\ overlay.triggers[triggerType][1].scope # Null
    THEN overlay.triggers[triggerType][1].scope
    ELSE "all"

\* the scopes in order of first appearance, each with its overlays
groupOverlaysByTargetScope(overlays, triggerType) ==
    LET firstAt(i) == \A j \in 1..(i - 1) :
                          scopeOf(overlays[j], triggerType) # scopeOf(overlays[i], triggerType)
        firsts == SelectSeq([i \in DOMAIN overlays |-> i], firstAt)
    IN  [g \in DOMAIN firsts |->
            [scope |-> scopeOf(overlays[firsts[g]], triggerType),
             overlays |-> SelectSeq(overlays, LAMBDA o :
                 scopeOf(o, triggerType) = scopeOf(overlays[firsts[g]], triggerType))]]

getContextBuilder(overlay) ==
    IF overlay.contextBuilder # Null THEN overlay.contextBuilder
    ELSE contextBuilderRegistryGet(overlay.id)

\* gives up the whole list when one overlay has no builder
prepareOverlaysWithContextBuilders_AbortsOnMissing(overlays) ==
    IF \E i \in DOMAIN overlays : getContextBuilder(overlays[i]) = Null THEN <<>>
    ELSE [i \in DOMAIN overlays |->
             [overlays[i] EXCEPT !.contextBuilder = getContextBuilder(overlays[i])]]

prepareOverlaysWithContextBuilders(overlays) ==
    LET withBuilder(overlay) ==
            IF overlay.contextBuilder = Null /\ getContextBuilder(overlay) # Null
            THEN [overlay EXCEPT !.contextBuilder = getContextBuilder(overlay)]
            ELSE overlay
    IN  SelectSeq([i \in DOMAIN overlays |-> withBuilder(overlays[i])],
                  LAMBDA overlay : overlay.contextBuilder # Null)

buildContextForOverlay(overlay, targetToken) ==
    [overlayTypeId |-> builtOverlayTypeId(overlay.contextBuilder),
     tokenId |-> targetToken.id,
     renderOnTokenMesh |-> overlay.renderOnTokenMesh,
     overlayCentre |-> tokenCentre(targetToken.id)]

trackRenderedOverlay(renderedOverlays, tokenId, overlayId) ==
    MapSet(renderedOverlays, tokenId,
           (IF tokenId \in DOMAIN renderedOverlays THEN renderedOverlays[tokenId] ELSE {})
               \cup {overlayId})

\* r: what renderTokenOverlay did; then trackRenderedOverlay
trackAfterRender(st, r, tokenId, overlayId, instanceKey) ==
    IF r.raised THEN [st EXCEPT !.svc = r.s, !.raised = TRUE]
    ELSE [st EXCEPT
             !.svc = r.s,
             !.renderedOverlays = trackRenderedOverlay(@, tokenId, overlayId),
             !.requested = @ \cup {instanceKey},
             !.performed = IF r.outcome = "rendered"
                           THEN @ \cup {<<tokenId, overlayId>>} ELSE @]

RECURSIVE renderOverlaysOnToken(_, _, _, _, _)
renderOverlaysOnToken(st, reg, cv, targetToken, overlays) ==
    IF overlays = <<>> \/ st.raised THEN st
    ELSE IF buildContextThrows(Head(overlays).contextBuilder)
    THEN [st EXCEPT !.raised = TRUE]
    ELSE renderOverlaysOnToken(
             trackAfterRender(st,
                 renderTokenOverlayResult(st.svc, reg, cv,
                     buildContextForOverlay(Head(overlays), targetToken)),
                 targetToken.id, Head(overlays).id,
                 createInstanceKey(targetToken.id,
                                   builtOverlayTypeId(Head(overlays).contextBuilder))),
             reg, cv, targetToken, Tail(overlays))

RECURSIVE requestOverlayRendering(_, _, _, _, _)
requestOverlayRendering(st, reg, cv, targetTokens, matchingOverlays) ==
    IF targetTokens = <<>> \/ st.raised THEN st
    ELSE requestOverlayRendering(
             renderOverlaysOnToken(st, reg, cv, Head(targetTokens), matchingOverlays),
             reg, cv, Tail(targetTokens), matchingOverlays)

\* requested: the state requestOverlayRendering left for the group
pushProcessedGroup(requested, targetTokens, scopeOverlays) ==
    IF requested.raised THEN requested
    ELSE [requested EXCEPT !.groups = Append(@, [targetTokens |-> targetTokens,
                                                  overlays |-> scopeOverlays])]

\* one turn of the loop over the scope groups
processGroup(st, reg, cv, group, targetTokens) ==
    IF targetTokens = <<>> THEN st
    ELSE pushProcessedGroup(
             requestOverlayRendering(st, reg, cv, targetTokens,
                                     prepareOverlaysWithContextBuilders(group.overlays)),
             targetTokens, group.overlays)

RECURSIVE processGroups(_, _, _, _, _)
processGroups(st, reg, cv, overlayGroups, previewToken) ==
    IF overlayGroups = <<>> \/ st.raised THEN st
    ELSE processGroups(
             processGroup(st, reg, cv, Head(overlayGroups),
                          getTargetTokens(tokenRepositoryGetAll(cv),
                                          Head(overlayGroups).scope, previewToken)),
             reg, cv, Tail(overlayGroups), previewToken)

processOverlaysByScope(s, renderedOverlays, reg, cv, overlays, triggerType, previewToken) ==
    processGroups([svc |-> s, renderedOverlays |-> renderedOverlays,
                   groups |-> <<>>, requested |-> {}, performed |-> {}, raised |-> FALSE],
                  reg, cv, groupOverlaysByTargetScope(overlays, triggerType), previewToken)

\* ---------------------------------------------------------------------
\* KeyboardCoordinator (application/coordinators)
\*
\* A coordinator state c is [svc, kbd, hidden, processed]: the rendering
\* service, the coordinator's fields, the overlay types passed to
\* hideAllOverlaysOfType so far in this handler, and per key what
\* processing it in this handler cached and requested.
\* ---------------------------------------------------------------------
KEY_M == "m"
KEY_K == "k"

notProcessed == [ran |-> FALSE, types |-> {}, requested |-> {}]

coordinatorState(s, k) ==
    [svc |-> s, kbd |-> k, hidden |-> {},
     processed |-> [m |-> notProcessed, k |-> notProcessed]]

collectUniqueOverlayTypes(c) ==
    UNION {c.kbd.mKeyOverlaysCache[t] : t \in DOMAIN c.kbd.mKeyOverlaysCache}

collectUniqueKKeyOverlayTypes(c) ==
    UNION {c.kbd.kKeyOverlaysCache[t] : t \in DOMAIN c.kbd.kKeyOverlaysCache}

\* hideAllOverlaysOfType for each of the types, in any order
hideOverlayTypes(s, overlayTypes) ==
    hideKeys(s, UNION {findOverlayTypeKeys(s, o) : o \in overlayTypes})

hideAllMKeyOverlays(c) ==
    [c EXCEPT !.svc = hideOverlayTypes(@, collectUniqueOverlayTypes(c)),
              !.hidden = @ \cup collectUniqueOverlayTypes(c),
              !.kbd.mKeyOverlaysCache = EmptyMap]

hideAllKKeyOverlays(c) ==
    [c EXCEPT !.svc = hideOverlayTypes(@, collectUniqueKKeyOverlayTypes(c)),
              !.hidden = @ \cup collectUniqueKKeyOverlayTypes(c),
              !.kbd.kKeyOverlaysCache = EmptyMap]

overlayIdsOf(overlays) == {overlays[i].id : i \in DOMAIN overlays}

trackMKeyOverlays(cache, targetTokens, overlays) ==
    LET tokenIds == {targetTokens[i].id : i \in DOMAIN targetTokens}
    IN  IF overlayIdsOf(overlays) = {} THEN cache
        ELSE [t \in DOMAIN cache \cup tokenIds |->
                 IF t \in tokenIds
                 THEN (IF t \in DOMAIN cache THEN cache[t] ELSE {}) \cup overlayIdsOf(overlays)
                 ELSE cache[t]]

trackKKeyOverlays(cache, targetTokens, overlays) ==
    LET tokenIds == {targetTokens[i].id : i \in DOMAIN targetTokens}
    IN  IF overlayIdsOf(overlays) = {} THEN cache
        ELSE [t \in DOMAIN cache \cup tokenIds |->
                 IF t \in tokenIds
                 THEN (IF t \in DOMAIN cache THEN cache[t] ELSE {}) \cup overlayIdsOf(overlays)
                 ELSE cache[t]]

RECURSIVE trackMGroups(_, _)
trackMGroups(cache, overlayGroups) ==
    IF overlayGroups = <<>> THEN cache
    ELSE trackMGroups(trackMKeyOverlays(cache, Head(overlayGroups).targetTokens,
                                        Head(overlayGroups).overlays),
                      Tail(overlayGroups))

RECURSIVE trackKGroups(_, _)
trackKGroups(cache, overlayGroups) ==
    IF overlayGroups = <<>> THEN cache
    ELSE trackKGroups(trackKKeyOverlays(cache, Head(overlayGroups).targetTokens,
                                        Head(overlayGroups).overlays),
                      Tail(overlayGroups))

groupTypes(overlayGroups) ==
    UNION {overlayIdsOf(overlayGroups[g].overlays) : g \in DOMAIN overlayGroups}

cacheMKeyOverlays(c, st) ==
    [c EXCEPT !.svc = st.svc,
              !.kbd.renderedOverlays = st.renderedOverlays,
              !.kbd.mKeyOverlaysCache = trackMGroups(EmptyMap, st.groups),
              !.processed.m = [ran |-> TRUE, types |-> groupTypes(st.groups),
                               requested |-> st.requested]]

processMKeyOverlays(c, reg, cv) ==
    IF filterByKeyTrigger(reg, KEY_M) = <<>> THEN c
    ELSE cacheMKeyOverlays(c,
             processOverlaysByScope(c.svc, c.kbd.renderedOverlays, reg, cv,
                                    filterByKeyTrigger(reg, KEY_M), "keyPress", None))

cacheKKeyOverlays(c, st) ==
    [c EXCEPT !.svc = st.svc,
              !.kbd.renderedOverlays = st.renderedOverlays,
              !.kbd.kKeyOverlaysCache = trackKGroups(EmptyMap, st.groups),
              !.processed.k = [ran |-> TRUE, types |-> groupTypes(st.groups),
                               requested |-> st.requested]]

processKKeyOverlays(c, reg, cv) ==
    IF filterByKeyTrigger(reg, KEY_K) = <<>> THEN c
    ELSE cacheKKeyOverlays(c,
             processOverlaysByScope(c.svc, c.kbd.renderedOverlays, reg, cv,
                                    filterByKeyTrigger(reg, KEY_K), "keyPress", None))

\* the four steps of updateOverlays, in the order it takes them
hideIfMKeyReleased(c) ==
    IF KEY_M \notin c.kbd.activeKeys /\ DOMAIN c.kbd.mKeyOverlaysCache # {}
    THEN hideAllMKeyOverlays(c) ELSE c

hideIfKKeyReleased(c) ==
    IF KEY_K \notin c.kbd.activeKeys /\ DOMAIN c.kbd.kKeyOverlaysCache # {}
    THEN hideAllKKeyOverlays(c) ELSE c

processIfMKeyPressed(c, reg, cv) ==
    IF KEY_M \in c.kbd.activeKeys THEN processMKeyOverlays(c, reg, cv) ELSE c

processIfKKeyPressed(c, reg, cv) ==
    IF KEY_K \in c.kbd.activeKeys THEN processKKeyOverlays(c, reg, cv) ELSE c

updateOverlays(c, reg, cv) ==
    IF c.kbd.activeKeys = {}
    THEN hideIfKKeyReleased(hideIfMKeyReleased(c))
    ELSE processIfKKeyPressed(
             processIfMKeyPressed(hideIfKKeyReleased(hideIfMKeyReleased(c)), reg, cv),
             reg, cv)

keyPressed(c, key) == [c EXCEPT !.kbd.activeKeys = @ \cup {key}]

handleKeyDown_NoRepeatGuard(c, reg, cv, key) ==
    IF toLowerCase(key) # KEY_M /\ toLowerCase(key) # KEY_K THEN c
    ELSE updateOverlays(keyPressed(c, toLowerCase(key)), reg, cv)

handleKeyDown(c, reg, cv, key) ==
    IF toLowerCase(key) # KEY_M /\ toLowerCase(key) # KEY_K THEN c
    ELSE IF toLowerCase(key) \in c.kbd.activeKeys THEN c
    ELSE updateOverlays(keyPressed(c, toLowerCase(key)), reg, cv)

keyReleased(c, key) == [c EXCEPT !.kbd.activeKeys = @ \ {key}]

hideIfMKey(c, key) ==
    IF key = KEY_M /\ DOMAIN c.kbd.mKeyOverlaysCache # {} THEN hideAllMKeyOverlays(c) ELSE c

hideIfKKey(c, key) ==
    IF key = KEY_K /\ DOMAIN c.kbd.kKeyOverlaysCache # {} THEN hideAllKKeyOverlays(c) ELSE c

handleKeyUp(c, key) ==
    IF toLowerCase(key) \notin c.kbd.activeKeys THEN c
    ELSE hideIfKKey(hideIfMKey(keyReleased(c, toLowerCase(key)), toLowerCase(key)),
                    toLowerCase(key))

clearAllKeys(k) ==
    [k EXCEPT !.activeKeys = {}, !.mKeyOverlaysCache = EmptyMap, !.kKeyOverlaysCache = EmptyMap]

\* ---------------------------------------------------------------------
\* The Keyboard Coordinator under key events, with the host changing
\* which tokens are hidden
\* ---------------------------------------------------------------------
\* an overlay a module user registers next to the built-in ones
ArcDefinition(keys, scope) ==
    [id |-> STR_arc, renderLayer |-> "drawings", renderOnTokenMesh |-> FALSE,
     contextBuilder |-> "HealthArcContextBuilder",
     triggers |-> [NoTriggers EXCEPT !.keyPress = <<[keys |-> keys, scope |-> scope]>>]]

SharedKeyRegistry ==
    registerAll({[HealthArcDefinition EXCEPT !.triggers.keyPress =
                      <<[keys |-> {"m", "k"}, scope |-> "visible-and-not-hidden"]>>],
                 TokenInfoDefinition})

KArcRegistry == registerAll({HealthArcDefinition, ArcDefinition({"k"}, "all")})
MArcRegistry == registerAll({HealthArcDefinition, ArcDefinition({"m"}, "all")})

KeyboardRegistries == {DefaultRegistry, SharedKeyRegistry, KArcRegistry, MArcRegistry}
KeyEvents == {"m", "k", "M", "x"}
TrackedKeys == {KEY_M, KEY_K}
otherKey(key) == IF key = KEY_M THEN KEY_K ELSE KEY_M

KeyboardHostTokens == {t \in HostTokens : ~t.hasMesh}

InitKeyboard ==
    /\ PureIdle
    /\ HostIdle
    /\ canvas \in [ready : {TRUE}, stage : {TRUE}, layers : {CanvasLayers},
                   tokens : [TokenIds -> KeyboardHostTokens]]
    /\ registry \in KeyboardRegistries
    /\ svc = performInitialisation(svcConstructed, registry, canvas)
    /\ kbd = kbdConstructed
    /\ drag = dragConstructed
    /\ helper = helperConstructed
    /\ press = pressConstructed
    /\ lastCall = Called("constructed")

pressAfterProcessing(p, c) ==
    [key \in TrackedKeys |->
        IF c.processed[key].ran
        THEN [p[key] EXCEPT !.types = @ \cup c.processed[key].types,
                            !.shown = @ \cup visibleAmong(c.svc, c.processed[key].requested)]
        ELSE p[key]]

KeyDown ==
    \E event \in KeyEvents :
    \E key \in {toLowerCase(event)} :
    \E c \in {handleKeyDown(coordinatorState(svc, kbd), registry, canvas, event)} :
        /\ Len(c.svc.graphics) <= MaxGraphics
        /\ svc' = c.svc
        /\ kbd' = c.kbd
        /\ press' = IF key \in TrackedKeys /\ key \notin kbd.activeKeys
                    THEN pressAfterProcessing(
                             [press EXCEPT ![key] = noPress, ![otherKey(key)].solo = FALSE], c)
                    ELSE press
        /\ lastCall' = [op |-> "keyDown", key |-> key,
                        ignored |-> key \notin TrackedKeys \/ key \in kbd.activeKeys,
                        repeat |-> key \in kbd.activeKeys,
                        hidden |-> c.hidden,
                        hiddenDrawables |-> hiddenDrawables(svc, c.svc),
                        changed |-> c.svc # svc \/ c.kbd # kbd,
                        pressTypes |-> {}, solo |-> TRUE]
        /\ UNCHANGED <<pureVars, hostVars, helper, canvas, registry, drag>>

KeyUp ==
    \E event \in KeyEvents :
    \E key \in {toLowerCase(event)} :
    \E c \in {handleKeyUp(coordinatorState(svc, kbd), event)} :
        /\ svc' = c.svc
        /\ kbd' = c.kbd
        /\ press' = IF key \in kbd.activeKeys
                    THEN [press EXCEPT ![key] = noPress, ![otherKey(key)].solo = FALSE]
                    ELSE press
        /\ lastCall' = [op |-> "keyUp", key |-> key,
                        ignored |-> key \notin kbd.activeKeys, repeat |-> FALSE,
                        hidden |-> c.hidden,
                        hiddenDrawables |-> hiddenDrawables(svc, c.svc),
                        onlyHides |-> onlyHides(svc, c.svc),
                        changed |-> c.svc # svc \/ c.kbd # kbd,
                        pressTypes |-> IF key \in kbd.activeKeys THEN press[key].types ELSE {},
                        solo |-> IF key \in kbd.activeKeys THEN press[key].solo ELSE TRUE]
        /\ UNCHANGED <<pureVars, hostVars, helper, canvas, registry, drag>>

ClearAllKeys ==
    /\ kbd' = clearAllKeys(kbd)
    /\ press' = pressConstructed
    /\ lastCall' = Lifecycle("clearAllKeys", svc,
                             /\ kbd.activeKeys = {}
                             /\ kbd.mKeyOverlaysCache = EmptyMap
                             /\ kbd.kKeyOverlaysCache = EmptyMap,
                             kbd' # kbd, clearAllKeys(kbd') # kbd')
    /\ UNCHANGED <<pureVars, hostVars, helper, canvas, registry, svc, drag>>

\* the host hides or reveals a token
UpdateToken ==
    \E tokenId \in DOMAIN canvas.tokens :
        /\ canvas' = [canvas EXCEPT !.tokens[tokenId].hidden = ~@]
        /\ lastCall' = Called("updateToken")
        /\ UNCHANGED <<pureVars, hostVars, helper, registry, svc, kbd, drag, press>>

NextKeyboard ==
    \/ KeyDown
    \/ KeyUp
    \/ UpdateToken

SpecKeyboard == InitKeyboard /\ [][NextKeyboard]_vars

\* ---------------------------------------------------------------------
\* Properties of the Keyboard Coordinator
\* ---------------------------------------------------------------------
\* C2: for a tracked key pressed, repeated, released and released again
\* with no event of the other key in between: the repeated key-down
\* changes nothing, the first key-up passes to hideAllOverlaysOfType
\* exactly the overlay types the press cached, and the unmatched key-up
\* hides nothing and changes no state.
C2_GestureSymmetry ==
    /\ (lastCall.op = "keyDown" /\ lastCall.repeat) =>
          ~lastCall.changed /\ lastCall.hidden = {}
    /\ (lastCall.op = "keyUp" /\ ~lastCall.ignored /\ lastCall.solo) =>
          lastCall.hidden = lastCall.pressTypes
    /\ (lastCall.op = "keyUp" /\ lastCall.ignored) =>
          ~lastCall.changed /\ lastCall.hidden = {} /\ lastCall.hiddenDrawables = {}

\* a lone press that showed something has been released
C2_Witness ==
    /\ lastCall.op = "keyUp"
    /\ ~lastCall.ignored
    /\ lastCall.solo
    /\ lastCall.pressTypes # {}
    /\ lastCall.hiddenDrawables # {}
    /\ kbd.activeKeys = {}

\* C4: while M is held, a key-down or key-up of K hides no drawable that
\* was shown for M, and M's key-up passes to hideAllOverlaysOfType exactly
\* the overlay types its press cached, whatever K did in between.
C4_KeysIndependent ==
    /\ (/\ lastCall.op \in {"keyDown", "keyUp"}
        /\ lastCall.key = KEY_K
        /\ KEY_M \in kbd.activeKeys) =>
          lastCall.hiddenDrawables \cap press.m.shown = {}
    /\ (lastCall.op = "keyUp" /\ lastCall.key = KEY_M /\ ~lastCall.ignored) =>
          lastCall.hidden = lastCall.pressTypes

\* ---------------------------------------------------------------------
\* TokenDragCoordinator (application/coordinators)
\*
\* A coordinator state c is [svc, drag, hidden]. drag.previousBlocker is
\* None or <<tokenId>>.
\* ---------------------------------------------------------------------
filterObstacles(obstacles, movingTokenId) ==
    SelectSeq(obstacles, LAMBDA obstacle :
        obstacle.id # movingTokenId /\ ~obstacle.hidden /\ obstacle.visible)

clearObstacleIndicatorOverlays(c) ==
    [c EXCEPT !.svc = clearOverlayType(@, STR_obstacle_indicator),
              !.indicatorOps = @ \cup {"clear"}]

\* requestOverlayRendering is called here with the flag isGM in the place
\* of its callback: calling it for the obstacle throws, and the error is
\* caught and logged before anything was rendered or tracked
renderObstacleIndicatorOverlays(c, reg, obstacle, isGM) ==
    IF STR_obstacle_indicator \notin DOMAIN reg
    THEN [c EXCEPT !.indicatorOps = @ \cup {"render"}]
    ELSE IF prepareOverlaysWithContextBuilders(<<reg[STR_obstacle_indicator]>>) = <<>>
    THEN [c EXCEPT !.indicatorOps = @ \cup {"render"}]
    ELSE [c EXCEPT !.indicatorOps = @ \cup {"render"}]

handleObstacleDetected(c, reg, currentBlocker, isGM) ==
    IF c.drag.previousBlocker = <<currentBlocker.id>> THEN c
    ELSE [renderObstacleIndicatorOverlays(clearObstacleIndicatorOverlays(c), reg,
                                          currentBlocker, isGM)
          EXCEPT !.drag.previousBlocker = <<currentBlocker.id>>]

handleObstacleClear(c) ==
    IF c.drag.previousBlocker = None THEN c
    ELSE [clearObstacleIndicatorOverlays(c) EXCEPT !.drag.previousBlocker = None]

\* takes an 'ignored' result for a result without a blocker
updateObstacleIndicatorOverlays_ClearsOnIgnored(c, reg, validationResult, isGM) ==
    IF validationResult.blockers # <<>> /\ validationResult.type = "blocked"
    THEN handleObstacleDetected(c, reg, validationResult.blockers[1], isGM)
    ELSE handleObstacleClear(c)

\* validationResult: [type, blockers], the outcome of validateMovement
updateObstacleIndicatorOverlays(c, reg, validationResult, isGM) ==
    IF validationResult.blockers # <<>> /\ validationResult.type = "blocked"
    THEN handleObstacleDetected(c, reg, validationResult.blockers[1], isGM)
    ELSE IF validationResult.type # "ignored" THEN handleObstacleClear(c)
    ELSE c

trackDragOverlays(cache, targetTokens, overlays) ==
    LET tokenIds == {targetTokens[i].id : i \in DOMAIN targetTokens}
    IN  IF overlayIdsOf(overlays) = {} THEN cache
        ELSE [t \in DOMAIN cache \cup tokenIds |->
                 IF t \in tokenIds
                 THEN (IF t \in DOMAIN cache THEN cache[t] ELSE {}) \cup overlayIdsOf(overlays)
                 ELSE cache[t]]

RECURSIVE trackDragGroups(_, _)
trackDragGroups(cache, overlayGroups) ==
    IF overlayGroups = <<>> THEN cache
    ELSE trackDragGroups(trackDragOverlays(cache, Head(overlayGroups).targetTokens,
                                           Head(overlayGroups).overlays),
                         Tail(overlayGroups))

\* processOverlaysByScope receives (dragOverlays, allTokens, isGM,
\* userColour, ...): its contextBuilderRegistry is the token array, its
\* triggerType the flag isGM and its previewToken the colour string.
\* Looking a builder up in the array throws, before anything is rendered;
\* the flag names no trigger, so every overlay falls into scope "all".
cacheDragOverlays(c, st) ==
    [c EXCEPT !.svc = st.svc,
              !.drag.renderedOverlays = st.renderedOverlays,
              !.drag.dragOverlaysCache = trackDragGroups(@, st.groups)]

builderLookupThrows(cv, dragOverlays) ==
    /\ tokenRepositoryGetAll(cv) # <<>>
    /\ \E i \in DOMAIN dragOverlays : dragOverlays[i].contextBuilder = Null

processDragOverlays(c, reg, cv, isGM, userColour, dragOverlays) ==
    IF dragOverlays = <<>> THEN c
    ELSE IF builderLookupThrows(cv, dragOverlays) THEN c
    ELSE cacheDragOverlays(c,
             processOverlaysByScope(c.svc, c.drag.renderedOverlays, reg, cv, dragOverlays,
                                    IF isGM THEN "true" ELSE Null, <<userColour>>))

dragUpdateOverlays(c, reg, cv, isGM, userColour, trigger) ==
    processDragOverlays(c, reg, cv, isGM, userColour, filterByTrigger(reg, trigger))

handleDragStart(c, reg, cv, validationResult, isGM, userColour) ==
    dragUpdateOverlays(updateObstacleIndicatorOverlays(c, reg, validationResult, isGM),
                       reg, cv, isGM, userColour, "tokenDragStart")

handleDragMove(c, reg, cv, validationResult, isGM, userColour) ==
    dragUpdateOverlays(updateObstacleIndicatorOverlays(c, reg, validationResult, isGM),
                       reg, cv, isGM, userColour, "tokenDragMove")

dragCollectUniqueOverlayTypes(c) ==
    UNION {c.drag.dragOverlaysCache[t] : t \in DOMAIN c.drag.dragOverlaysCache}

\* hides the cached types and leaves the cache as it was
hideAllDragOverlays_KeepsCache(c) ==
    [c EXCEPT !.svc = hideOverlayTypes(@, dragCollectUniqueOverlayTypes(c)),
              !.hidden = @ \cup dragCollectUniqueOverlayTypes(c)]

hideAllDragOverlays(c) ==
    [c EXCEPT !.svc = hideOverlayTypes(@, dragCollectUniqueOverlayTypes(c)),
              !.hidden = @ \cup dragCollectUniqueOverlayTypes(c),
              !.drag.dragOverlaysCache = EmptyMap]

cleanupDragOperation(c) == hideAllDragOverlays(clearObstacleIndicatorOverlays(c))

handleDragEnd(c) == [cleanupDragOperation(c) EXCEPT !.drag.previousBlocker = None]

handleDragCancel_KeepsBlocker(c) == cleanupDragOperation(c)

handleDragCancel(c) == [cleanupDragOperation(c) EXCEPT !.drag.previousBlocker = None]

\* ---------------------------------------------------------------------
\* The Token Drag Coordinator under drag events, with the host changing
\* which tokens are hidden
\* ---------------------------------------------------------------------
DragTrigger(scope) == <<[scope |-> scope]>>

ObstacleIndicatorDefinition ==
    [id |-> STR_obstacle_indicator, renderLayer |-> "drawings",
     renderOnTokenMesh |-> FALSE, contextBuilder |-> "HealthArcContextBuilder",
     triggers |-> NoTriggers]

\* the health arc shown from drag start, the token info from each drag
\* move, both carrying their own context builder
DragRegistry ==
    registerAll({[HealthArcDefinition EXCEPT
                      !.contextBuilder = "HealthArcContextBuilder",
                      !.triggers.tokenDragStart = DragTrigger("visible-and-not-hidden")],
                 [TokenInfoDefinition EXCEPT
                      !.contextBuilder = "TokenInfoContextBuilder",
                      !.triggers.tokenDragMove = DragTrigger("controlled")],
                 ObstacleIndicatorDefinition})

\* the health arc shown on drag move, its builder left to the registry
DragLookupRegistry ==
    registerAll({[HealthArcDefinition EXCEPT
                      !.triggers.tokenDragMove = DragTrigger("visible-and-not-hidden")],
                 TokenInfoDefinition})

DragRegistries == {DefaultRegistry, DragRegistry, DragLookupRegistry}

UserColour == "#ff0000"

ValidationTypes == {"valid", "ignored", "blocked"}

ValidationResults(obstacles) ==
    {[type |-> t, blockers |-> <<>>] : t \in ValidationTypes}
    \cup {[type |-> t, blockers |-> <<obstacles[i]>>] :
              t \in ValidationTypes, i \in DOMAIN obstacles}

InitDrag ==
    /\ PureIdle
    /\ HostIdle
    /\ canvas \in [ready : {TRUE}, stage : {TRUE}, layers : {CanvasLayers},
                   tokens : [TokenIds -> KeyboardHostTokens]]
    /\ registry \in DragRegistries
    /\ svc = performInitialisation(svcConstructed, registry, canvas)
    /\ kbd = kbdConstructed
    /\ drag = dragConstructed
    /\ helper = helperConstructed
    /\ press = pressConstructed
    /\ lastCall = Called("constructed")

\* indicatorOps: which of clearObstacleIndicatorOverlays ("clear") and
\* renderObstacleIndicatorOverlays ("render") the handler called
dragState(s, d) == [svc |-> s, drag |-> d, hidden |-> {}, indicatorOps |-> {}]

reportedBlocker(validationResult) ==
    IF validationResult.blockers # <<>> /\ validationResult.type = "blocked"
    THEN <<validationResult.blockers[1].id>> ELSE None

indicatorsCreated(before, after) ==
    Cardinality({i \in DOMAIN after.graphics \ DOMAIN before.graphics :
        endsWith(after.graphics[i].name, <<CH_DASH>> \o STR_obstacle_indicator)})

\* blocker: the blocker the validator reported to this call, None or <<tokenId>>
DragCalled(op, c, blocker) ==
    [op |-> op, hidden |-> c.hidden,
     blocker |-> blocker,
     previousBlocker |-> drag.previousBlocker,
     indicatorsCreated |-> indicatorsCreated(svc, c.svc),
     onlyHides |-> onlyHides(svc, c.svc),
     cachedTypes |-> UNION {drag.dragOverlaysCache[t] : t \in DOMAIN drag.dragOverlaysCache},
     hadBlocker |-> drag.previousBlocker # None,
     indicatorOps |-> c.indicatorOps,
     hiddenDrawables |-> hiddenDrawables(svc, c.svc),
     endAndCancelAgree |-> handleDragEnd(dragState(svc, drag))
                               = handleDragCancel(dragState(svc, drag))]

DragStart ==
    \E dragStartTokenId \in DOMAIN canvas.tokens, isGM \in BOOLEAN :
    \E validationResult \in ValidationResults(
            filterObstacles(tokenRepositoryGetAll(canvas), dragStartTokenId)) :
    \E c \in {handleDragStart(dragState(svc, drag), registry, canvas, validationResult,
                   isGM, UserColour)} :
        /\ Len(c.svc.graphics) <= MaxGraphics
        /\ svc' = c.svc
        /\ drag' = c.drag
        /\ lastCall' = DragCalled("dragStart", c, reportedBlocker(validationResult))
                           @@ [type |-> validationResult.type]
        /\ UNCHANGED <<pureVars, hostVars, helper, canvas, registry, kbd, press>>

DragMove ==
    \E dragStartTokenId \in DOMAIN canvas.tokens, isGM \in BOOLEAN :
    \E validationResult \in ValidationResults(
            filterObstacles(tokenRepositoryGetAll(canvas), dragStartTokenId)) :
    \E c \in {handleDragMove(dragState(svc, drag), registry, canvas, validationResult,
                   isGM, UserColour)} :
        /\ Len(c.svc.graphics) <= MaxGraphics
        /\ svc' = c.svc
        /\ drag' = c.drag
        /\ lastCall' = DragCalled("dragMove", c, reportedBlocker(validationResult))
                           @@ [type |-> validationResult.type]
        /\ UNCHANGED <<pureVars, hostVars, helper, canvas, registry, kbd, press>>

DragEnd ==
    \E c \in {handleDragEnd(dragState(svc, drag))} :
        /\ svc' = c.svc
        /\ drag' = c.drag
        /\ lastCall' = DragCalled("dragEnd", c, None)
        /\ UNCHANGED <<pureVars, hostVars, helper, canvas, registry, kbd, press>>

DragCancel ==
    \E c \in {handleDragCancel(dragState(svc, drag))} :
        /\ svc' = c.svc
        /\ drag' = c.drag
        /\ lastCall' = DragCalled("dragCancel", c, None)
        /\ UNCHANGED <<pureVars, hostVars, helper, canvas, registry, kbd, press>>

NextDrag ==
    \/ DragStart
    \/ DragMove
    \/ DragEnd
    \/ DragCancel
    \/ UpdateToken

SpecDrag == InitDrag /\ [][NextDrag]_vars

\* ---------------------------------------------------------------------
\* Properties of the Token Drag Coordinator
\* ---------------------------------------------------------------------
VisibleOfType(overlayTypeId) ==
    {key \in findOverlayTypeKeys(svc, overlayTypeId) :
        svc.graphics[svc.overlayInstances[key]].visible}

\* C3: once handleDragEnd or handleDragCancel has completed, whatever
\* drag-start and drag-move events came before: no obstacle-indicator
\* drawable exists, every overlay type the drag cache recorded was passed
\* to hideAllOverlaysOfType and has no visible drawable, the drag cache is
\* empty, the remembered blocker is null, and drag-end and drag-cancel
\* lead to the same state.
C3_DragCleanup ==
    lastCall.op \in {"dragEnd", "dragCancel"} =>
        /\ findOverlayTypeKeys(svc, STR_obstacle_indicator) = {}
        /\ \A i \in LiveGraphics :
              ~endsWith(svc.graphics[i].name, <<CH_DASH>> \o STR_obstacle_indicator)
        /\ lastCall.hidden = lastCall.cachedTypes
        /\ \A o \in lastCall.cachedTypes : VisibleOfType(o) = {}
        /\ drag.dragOverlaysCache = EmptyMap
        /\ drag.previousBlocker = None
        /\ lastCall.endAndCancelAgree

\* a cancelled gesture that had a blocker and had shown overlays
C3_Witness ==
    /\ lastCall.op = "dragCancel"
    /\ lastCall.hadBlocker
    /\ Cardinality(lastCall.cachedTypes) >= 2
    /\ lastCall.hiddenDrawables # {}
    /\ drag.dragOverlaysCache = EmptyMap

IndicatorsShown ==
    {key \in VisibleOfType(STR_obstacle_indicator) :
        Cardinality(DrawablesNamed(key)) = 1}

\* C11: during one drag gesture, when a drag-start or drag-move is told
\* of a blocker, that blocker is the remembered one afterwards and exactly
\* one obstacle indicator is shown, the one on that blocker; the call
\* creates no indicator when the blocker is the one already remembered,
\* and creates exactly one, for the new blocker, when it differs.
C11_IndicatorOncePerBlocker ==
    (lastCall.op \in {"dragStart", "dragMove"} /\ lastCall.blocker # None) =>
        /\ drag.previousBlocker = lastCall.blocker
        /\ IndicatorsShown = {createInstanceKey(lastCall.blocker[1], STR_obstacle_indicator)}
        /\ lastCall.indicatorsCreated =
              (IF lastCall.previousBlocker = lastCall.blocker THEN 0 ELSE 1)

\* ---------------------------------------------------------------------
\* OverlayCoordinatorHelper: lifecycle of the tracked overlays
\*
\* A helper state h is [svc, renderedOverlays].
\* ---------------------------------------------------------------------
getAllTrackedOverlayTypes(renderedOverlays) ==
    UNION {renderedOverlays[t] : t \in DOMAIN renderedOverlays}

hideAllTrackedOverlays(h) ==
    [svc |-> hideOverlayTypes(h.svc, getAllTrackedOverlayTypes(h.renderedOverlays)),
     renderedOverlays |-> EmptyMap]

RECURSIVE hideOverlaysForTokens(_, _)
hideOverlaysForTokens(h, tokenIds) ==
    IF tokenIds = <<>> THEN h
    ELSE IF Head(tokenIds) \notin DOMAIN h.renderedOverlays
    THEN hideOverlaysForTokens(h, Tail(tokenIds))
    ELSE hideOverlaysForTokens(
             [svc |-> hideKeys(h.svc,
                          {createInstanceKey(Head(tokenIds), o) :
                               o \in h.renderedOverlays[Head(tokenIds)]}
                              \cap DOMAIN h.svc.overlayInstances),
              renderedOverlays |-> MapDelete(h.renderedOverlays, Head(tokenIds))],
             Tail(tokenIds))

clearTracking(h) == [h EXCEPT !.renderedOverlays = EmptyMap]

\* ---------------------------------------------------------------------
\* A helper called through its public operations, over a service that is
\* initialised or not yet, with the host changing which tokens are hidden
\* ---------------------------------------------------------------------
KeyTrigger(keys, scope) == <<[keys |-> keys, scope |-> scope]>>

\* health arc and token info on the same key, in two scope groups
TwoGroupRegistry ==
    registerAll({HealthArcDefinition,
                 [TokenInfoDefinition EXCEPT !.triggers.keyPress = KeyTrigger({"m"}, "all")]})

\* token info first, then a custom overlay drawn as a health arc
InfoThenArcRegistry ==
    registerAll({[HealthArcDefinition EXCEPT
                      !.triggers.keyPress = KeyTrigger({"k"}, "visible-and-not-hidden")],
                 [TokenInfoDefinition EXCEPT !.triggers.keyPress = KeyTrigger({"m"}, "all")],
                 ArcDefinition({"m"}, "all")})

\* a custom overlay that has no context builder, inline or registered
NoBuilderRegistry ==
    registerAll({HealthArcDefinition,
                 [ArcDefinition({"m"}, "visible-and-not-hidden") EXCEPT
                      !.contextBuilder = Null]})

\* a custom overlay whose builder names an overlay type nobody registered
UnregisteredTypeRegistry ==
    registerAll({ArcDefinition({"m"}, "all"), TokenInfoDefinition})

\* a custom builder on the token info that throws
FailingBuilderRegistry ==
    registerAll({HealthArcDefinition,
                 [TokenInfoDefinition EXCEPT
                      !.contextBuilder = "FailingContextBuilder",
                      !.triggers.keyPress = KeyTrigger({"m"}, "visible-and-not-hidden")]})

HelperRegistries ==
    {DefaultRegistry, TwoGroupRegistry, InfoThenArcRegistry, NoBuilderRegistry,
     UnregisteredTypeRegistry, FailingBuilderRegistry}

InitHelper ==
    /\ PureIdle
    /\ HostIdle
    /\ canvas \in [ready : {TRUE}, stage : {TRUE}, layers : {CanvasLayers},
                   tokens : [TokenIds -> KeyboardHostTokens]]
    /\ registry \in HelperRegistries
    /\ svc \in {svcConstructed, performInitialisation(svcConstructed, registry, canvas)}
    /\ kbd = kbdConstructed
    /\ drag = dragConstructed
    /\ helper = helperConstructed
    /\ press = pressConstructed
    /\ lastCall = Called("constructed")

pairsOfGroups(overlayGroups) ==
    UNION {{<<overlayGroups[g].targetTokens[i].id, overlayGroups[g].overlays[j].id>> :
                i \in DOMAIN overlayGroups[g].targetTokens,
                j \in DOMAIN overlayGroups[g].overlays} : g \in DOMAIN overlayGroups}

trackedPairs(renderedOverlays) ==
    UNION {{<<t, o>> : o \in renderedOverlays[t]} : t \in DOMAIN renderedOverlays}

\* an overlay whose configuration is sound: it has a context builder that
\* builds, for an overlay type the service knows and can paint
soundOverlay(reg, overlay) ==
    /\ getContextBuilder(overlay) # Null
    /\ ~buildContextThrows(getContextBuilder(overlay))
    /\ validateOverlayType(reg, builtOverlayTypeId(getContextBuilder(overlay)))

\* the <<tokenId, overlayId>> pairs of a batch whose overlay is sound
soundPairs(reg, cv, overlays, triggerType, previewToken) ==
    UNION {{<<getTargetTokens(tokenRepositoryGetAll(cv), scopeOf(overlays[j], triggerType),
                              previewToken)[i].id, overlays[j].id>> :
                i \in DOMAIN getTargetTokens(tokenRepositoryGetAll(cv),
                                             scopeOf(overlays[j], triggerType), previewToken)} :
           j \in {k \in DOMAIN overlays : soundOverlay(reg, overlays[k])}}

ProcessOverlaysByScope ==
    \E key \in TrackedKeys :
    \E st \in {processOverlaysByScope(svc, helper.renderedOverlays, registry, canvas,
                                      filterByKeyTrigger(registry, key), "keyPress", None)} :
        /\ Len(st.svc.graphics) <= MaxGraphics
        /\ svc' = st.svc
        /\ helper' = [renderedOverlays |-> st.renderedOverlays,
                      performed |-> helper.performed \cup st.performed]
        /\ lastCall' = [op |-> "processOverlaysByScope",
                        initialised |-> svc.isInitialised,
                        batch |-> overlayIdsOf(filterByKeyTrigger(registry, key)),
                        overlays |-> filterByKeyTrigger(registry, key),
                        prepared |-> prepareOverlaysWithContextBuilders(
                                         filterByKeyTrigger(registry, key)),
                        sound |-> soundPairs(registry, canvas,
                                             filterByKeyTrigger(registry, key), "keyPress", None),
                        performed |-> st.performed,
                        requested |-> st.requested,
                        returned |-> pairsOfGroups(st.groups),
                        emptyGroupReturned |->
                            \E g \in DOMAIN st.groups : st.groups[g].targetTokens = <<>>,
                        raised |-> st.raised]
        /\ UNCHANGED <<pureVars, hostVars, canvas, registry, kbd, drag, press>>

helperState(s, h) == [svc |-> s, renderedOverlays |-> h.renderedOverlays]

\* what a lifecycle operation of the helper did, h being the state it left
HelperLifecycle(op, h, again) ==
    Lifecycle(op, h.svc, helper.renderedOverlays = EmptyMap,
              h # helperState(svc, helper), again # h)

HideAllTrackedOverlays ==
    \E h \in {hideAllTrackedOverlays(helperState(svc, helper))} :
        /\ svc' = h.svc
        /\ helper' = [renderedOverlays |-> h.renderedOverlays, performed |-> {}]
        /\ lastCall' = HelperLifecycle("hideAllTrackedOverlays", h, hideAllTrackedOverlays(h))
        /\ UNCHANGED <<pureVars, hostVars, canvas, registry, kbd, drag, press>>

TokenIdLists == {<<>>, <<STR_a>>, <<STR_b>>, <<STR_a, STR_b>>}

HideOverlaysForTokens ==
    \E tokenIds \in TokenIdLists :
    \E h \in {hideOverlaysForTokens(helperState(svc, helper), tokenIds)} :
        /\ svc' = h.svc
        /\ helper' = [renderedOverlays |-> h.renderedOverlays,
                      performed |-> {pr \in helper.performed : pr[1] \notin Range(tokenIds)}]
        /\ lastCall' = HelperLifecycle("hideOverlaysForTokens", h,
                                       hideOverlaysForTokens(h, tokenIds))
        /\ UNCHANGED <<pureVars, hostVars, canvas, registry, kbd, drag, press>>

ClearTracking ==
    \E h \in {clearTracking(helperState(svc, helper))} :
        /\ svc' = h.svc
        /\ helper' = [renderedOverlays |-> h.renderedOverlays, performed |-> {}]
        /\ lastCall' = HelperLifecycle("clearTracking", h, clearTracking(h))
        /\ UNCHANGED <<pureVars, hostVars, canvas, registry, kbd, drag, press>>

NextHelper ==
    \/ ProcessOverlaysByScope
    \/ HideAllTrackedOverlays
    \/ HideOverlaysForTokens
    \/ ClearTracking
    \/ UpdateToken

SpecHelper == InitHelper /\ [][NextHelper]_vars

\* ---------------------------------------------------------------------
\* Properties of the Overlay Coordinator Helper
\* ---------------------------------------------------------------------
BatchProcessed == lastCall.op = "processOverlaysByScope"

\* the builder an overlay resolves to: its own, else the registry's
resolvedBuilder(overlay) ==
    IF overlay.contextBuilder # Null THEN overlay.contextBuilder
    ELSE contextBuilderRegistryGet(overlay.id)

\* C23: the overlays prepared for a batch are the overlays of the batch
\* that have an inline builder or one in the context-builder registry, in
\* the order of the batch, each unchanged but for its builder, which is
\* its inline builder when it has one and the registry's otherwise; an
\* overlay with neither is left out and every other overlay is kept.
C23_BuilderResolution ==
    BatchProcessed =>
        /\ [i \in DOMAIN lastCall.prepared |-> lastCall.prepared[i].id] =
              [i \in DOMAIN SelectSeq(lastCall.overlays,
                                      LAMBDA o : resolvedBuilder(o) # Null) |->
                  SelectSeq(lastCall.overlays, LAMBDA o : resolvedBuilder(o) # Null)[i].id]
        /\ \A i \in DOMAIN lastCall.prepared :
              \E j \in DOMAIN lastCall.overlays :
                  /\ lastCall.overlays[j].id = lastCall.prepared[i].id
                  /\ lastCall.prepared[i] =
                        [lastCall.overlays[j] EXCEPT
                            !.contextBuilder = resolvedBuilder(lastCall.overlays[j])]
                  /\ lastCall.overlays[j].contextBuilder # Null =>
                        lastCall.prepared[i].contextBuilder
                            = lastCall.overlays[j].contextBuilder

\* a batch of an overlay with no builder and one whose builder came from
\* the registry
C23_Witness ==
    /\ BatchProcessed
    /\ Len(lastCall.prepared) = 1
    /\ Len(lastCall.overlays) = 2
    /\ \E j \in DOMAIN lastCall.overlays :
          /\ lastCall.overlays[j].contextBuilder = Null
          /\ lastCall.overlays[j].id = lastCall.prepared[1].id
          /\ lastCall.prepared[1].contextBuilder # Null

\* the <<tokenId, overlayId>> pairs of overlays with no paint strategy
unpaintablePairs ==
    {pr \in (DOMAIN canvas.tokens) \X (DOMAIN registry) : pr[2] \notin Renderers}

\* C26: in a processOverlaysByScope batch, no render is requested for an
\* overlay that has no paint strategy in the rendering service, and no
\* tracking entry or drawable is created for it.
C26_UnpaintableNeverRequested ==
    BatchProcessed =>
        \A pr \in unpaintablePairs :
            /\ createInstanceKey(pr[1], pr[2]) \notin lastCall.requested
            /\ pr \notin trackedPairs(helper.renderedOverlays)
            /\ createInstanceKey(pr[1], pr[2]) \notin DOMAIN svc.overlayInstances

\* C14: in a processOverlaysByScope batch over an initialised service, a
\* request with a configuration error is skipped alone: the call does not
\* raise to the coordinator, and every pair of the batch whose overlay
\* has a builder that builds for a registered, paintable overlay type is
\* rendered.
C14_ErrorSkippedAlone ==
    (BatchProcessed /\ lastCall.initialised) =>
        /\ ~lastCall.raised
        /\ lastCall.sound \subseteq lastCall.performed

\* C19: processOverlaysByScope returns exactly the groups it rendered:
\* every (token, overlay) pair of a returned group had a render performed,
\* and no returned group has an empty target list.
C19_ReturnsWhatWasRendered ==
    BatchProcessed =>
        /\ lastCall.returned \subseteq lastCall.performed
        /\ ~lastCall.emptyGroupReturned

\* C20: the helper's render-tracking map holds a (tokenId, overlayId) pair
\* exactly when the Rendering Service rendered that pair since the pair's
\* tracking was last hidden or cleared.
C20_TrackedIffRendered ==
    trackedPairs(helper.renderedOverlays) = helper.performed

\* ---------------------------------------------------------------------
\* The rendering service, a helper and the coordinators over one canvas
\* with one token on it, shown or hidden: first under every operation that
\* hides, then under every operation that clears or tears down, each with
\* the renders that go between them
\* ---------------------------------------------------------------------
InitEngine ==
    /\ PureIdle
    /\ HostIdle
    /\ canvas \in [ready : {TRUE}, stage : {TRUE}, layers : {CanvasLayers},
                   tokens : [{STR_a} -> KeyboardHostTokens]]
    /\ registry = DragRegistry
    /\ svc = performInitialisation(svcConstructed, registry, canvas)
    /\ kbd = kbdConstructed
    /\ drag = dragConstructed
    /\ helper = helperConstructed
    /\ press = pressConstructed
    /\ lastCall = Called("constructed")

NextHiding ==
    \/ RenderTokenOverlay
    \/ HideTokenOverlay
    \/ HideAllOverlaysOfType
    \/ ProcessOverlaysByScope
    \/ HideAllTrackedOverlays
    \/ HideOverlaysForTokens
    \/ KeyDown
    \/ KeyUp
    \/ DragStart
    \/ DragEnd

SpecHiding == InitEngine /\ [][NextHiding]_vars

NextDestruction ==
    \/ RenderTokenOverlay
    \/ HideTokenOverlay
    \/ HideAllOverlaysOfType
    \/ ClearTokenOverlay
    \/ ClearAllTokenOverlays
    \/ ClearOverlayType
    \/ CanvasTearDown
    \/ ProcessOverlaysByScope
    \/ HideAllTrackedOverlays
    \/ ClearTracking
    \/ KeyDown
    \/ ClearAllKeys

SpecDestruction == InitEngine /\ [][NextDestruction]_vars

\* ---------------------------------------------------------------------
\* Properties of hiding and of destruction
\* ---------------------------------------------------------------------
HideOps ==
    {"hideTokenOverlay", "hideAllOverlaysOfType", "hideAllTrackedOverlays",
     "hideOverlaysForTokens", "keyUp", "dragEnd"}

\* C13: every hide operation (the service's hideTokenOverlay and
\* hideAllOverlaysOfType, the helper's hideAllTrackedOverlays and
\* hideOverlaysForTokens, the hide passes of key-up and of drag end) leaves
\* the instance map, the containers and every drawable's parent as they
\* were and only turns visibility off; a later render of a pair whose
\* drawable is hidden reuses that drawable and makes it visible.
C13_HideOnlyHides ==
    /\ lastCall.op \in HideOps => lastCall.onlyHides
    /\ (RenderCalled /\ lastCall.wasHidden /\ lastCall.outcome = "rendered") =>
          /\ lastCall.reused
          /\ lastCall.created = 0
          /\ svc.graphics[svc.overlayInstances[lastCall.key]].visible
          /\ ~svc.graphics[svc.overlayInstances[lastCall.key]].destroyed

\* a pair tracked by the helper was hidden and has been rendered again on
\* the drawable it had
C13_Witness ==
    /\ RenderCalled
    /\ lastCall.wasHidden
    /\ lastCall.outcome = "rendered"
    /\ lastCall.reused
    /\ svc.graphics[svc.overlayInstances[lastCall.key]].visible

DestructionOps ==
    {"clearTokenOverlay", "clearAllTokenOverlays", "clearOverlayType",
     "hideTokenOverlay", "hideAllOverlaysOfType", "canvasTearDown",
     "hideAllTrackedOverlays", "clearTracking", "clearAllKeys"}

\* C18: clearTokenOverlay, clearAllTokenOverlays, clearOverlayType,
\* hideTokenOverlay, hideAllOverlaysOfType, canvas teardown,
\* hideAllTrackedOverlays, clearTracking and clearAllKeys change nothing
\* when called while nothing is tracked, and the same call made a second
\* time in a row changes nothing.
C18_IdempotentOnEmpty ==
    lastCall.op \in DestructionOps =>
        /\ lastCall.nothingTracked => ~lastCall.changed
        /\ ~lastCall.repeatChanged

\* a type was cleared whose drawables had all been cleared one by one, its
\* container still being there
C18_Witness ==
    /\ lastCall.op = "clearOverlayType"
    /\ lastCall.nothingTracked
    /\ ~lastCall.changed
    /\ svc.overlayTypeContainers # EmptyMap
    /\ \E i \in DOMAIN svc.graphics : svc.graphics[i].destroyed

\* ---------------------------------------------------------------------
\* OverlayRegistry (application/registries): registration and lookups
\* ---------------------------------------------------------------------
\* keeps the definition registered first under an id
register_KeepsFirst(reg, definition) ==
    IF definition.id \in DOMAIN reg THEN reg ELSE MapSet(reg, definition.id, definition)

register(reg, definition) == MapSet(reg, definition.id, definition)

RECURSIVE registerEach(_, _)
registerEach(reg, definitions) ==
    IF definitions = <<>> THEN reg
    ELSE registerEach(register(reg, Head(definitions)), Tail(definitions))

size(reg) == Cardinality(DOMAIN reg)

\* [reg, registered]: the registry afterwards and the number returned
registerBatch(reg, definitions) ==
    [reg |-> registerEach(reg, definitions),
     registered |-> size(registerEach(reg, definitions)) - size(reg)]

\* [reg, removed]
unregister(reg, overlayTypeId) ==
    [reg |-> MapDelete(reg, overlayTypeId), removed |-> overlayTypeId \in DOMAIN reg]

get(reg, overlayTypeId) ==
    IF overlayTypeId \in DOMAIN reg THEN <<reg[overlayTypeId]>> ELSE None

has(reg, overlayTypeId) == overlayTypeId \in DOMAIN reg

getAllIds(reg) == [i \in DOMAIN getAll(reg) |-> getAll(reg)[i].id]

clear(reg) == EmptyMap

\* ---------------------------------------------------------------------
\* The Overlay Registry under its public operations
\* ---------------------------------------------------------------------
RegistryIds == {STR_health_arc, STR_token_info, STR_arc}

\* the built-in definitions, the health arc with its key in upper case and
\* with an empty key list, the token info on a drag trigger only, and a
\* custom overlay on two keys
RegistryDefinitions ==
    {HealthArcDefinition,
     [HealthArcDefinition EXCEPT !.triggers.keyPress = KeyTrigger({"M"}, "all")],
     [HealthArcDefinition EXCEPT !.triggers.keyPress = KeyTrigger({}, "all")],
     TokenInfoDefinition,
     [TokenInfoDefinition EXCEPT !.triggers.keyPress = None,
                                 !.triggers.tokenDragMove = DragTrigger("all")],
     ArcDefinition({"m", "K"}, "all")}

RegistryBatches ==
    {<<>>} \cup {<<d1, d2>> : d1 \in RegistryDefinitions, d2 \in RegistryDefinitions}

InitRegistry ==
    /\ EngineIdle
    /\ PureIdle
    /\ HostIdle

\* the entries of every id but those in ids are what they were
othersKept(after, ids) ==
    \A o \in RegistryIds \ ids : get(after, o) = get(registry, o)

Register ==
    \E definition \in RegistryDefinitions :
        /\ registry' = register(registry, definition)
        /\ lastCall' = [op |-> "register", id |-> definition.id,
                        definition |-> definition,
                        existed |-> has(registry, definition.id),
                        othersKept |-> othersKept(registry', {definition.id})]
        /\ UNCHANGED <<pureVars, hostVars, canvas, svc, kbd, drag, helper, press>>

RegisterBatch ==
    \E definitions \in RegistryBatches :
    \E r \in {registerBatch(registry, definitions)} :
        /\ registry' = r.reg
        /\ lastCall' = [op |-> "registerBatch", definitions |-> definitions,
                        returned |-> r.registered,
                        sizeBefore |-> size(registry),
                        othersKept |-> othersKept(r.reg,
                                          {definitions[i].id : i \in DOMAIN definitions})]
        /\ UNCHANGED <<pureVars, hostVars, canvas, svc, kbd, drag, helper, press>>

Unregister ==
    \E overlayTypeId \in RegistryIds :
    \E r \in {unregister(registry, overlayTypeId)} :
        /\ registry' = r.reg
        /\ lastCall' = [op |-> "unregister", id |-> overlayTypeId,
                        existed |-> has(registry, overlayTypeId),
                        returned |-> r.removed,
                        othersKept |-> othersKept(r.reg, {overlayTypeId})]
        /\ UNCHANGED <<pureVars, hostVars, canvas, svc, kbd, drag, helper, press>>

Clear ==
    /\ registry' = clear(registry)
    /\ lastCall' = [op |-> "clear"]
    /\ UNCHANGED <<pureVars, hostVars, canvas, svc, kbd, drag, helper, press>>

\* get, has, getAll, getAllIds and size: what they returned for an id
Lookup ==
    \E overlayTypeId \in RegistryIds :
        /\ lastCall' = [op |-> "lookup", id |-> overlayTypeId,
                        get |-> get(registry, overlayTypeId),
                        has |-> has(registry, overlayTypeId),
                        getAllIds |-> getAllIds(registry),
                        size |-> size(registry)]
        /\ UNCHANGED <<pureVars, hostVars, canvas, registry, svc, kbd, drag, helper, press>>

FilterKeys == {"m", "M", "k", "K", "x"}

idsOf(overlays) == {overlays[i].id : i \in DOMAIN overlays}

FilterByKeyTrigger ==
    \E triggerKey \in FilterKeys :
        /\ lastCall' = [op |-> "filterByKeyTrigger", triggerKey |-> triggerKey,
                        returned |-> idsOf(filterByKeyTrigger(registry, triggerKey)),
                        keyPress |-> idsOf(filterByTrigger(registry, "keyPress"))]
        /\ UNCHANGED <<pureVars, hostVars, canvas, registry, svc, kbd, drag, helper, press>>

NextRegistry ==
    \/ Register
    \/ RegisterBatch
    \/ Unregister
    \/ Clear
    \/ Lookup
    \/ FilterByKeyTrigger

SpecRegistry == InitRegistry /\ [][NextRegistry]_vars

\* ---------------------------------------------------------------------
\* Properties of the Overlay Registry
\* ---------------------------------------------------------------------
NoDuplicates(s) == \A i \in DOMAIN s : \A j \in DOMAIN s : s[i] = s[j] => i = j

\* the definition a batch registers last under the id of its i-th one
lastOfBatch(definitions, i) ==
    definitions[CHOOSE j \in DOMAIN definitions :
                    /\ definitions[j].id = definitions[i].id
                    /\ \A k \in DOMAIN definitions :
                          definitions[k].id = definitions[i].id => k <= j]

\* C21: after any sequence of register, registerBatch, unregister and
\* clear, getAllIds lists every registered id once and size counts them;
\* has(id) agrees with get(id); register and registerBatch leave under
\* each id they were given the definition given last and touch no other
\* id; unregister returns true exactly when an entry existed, removes it
\* and touches no other id; clear leaves nothing; the lookups return what
\* the registry holds and change nothing.
C21_IdIsSoleKey ==
    /\ NoDuplicates(getAllIds(registry))
    /\ Range(getAllIds(registry)) = DOMAIN registry
    /\ size(registry) = Len(getAllIds(registry))
    /\ \A o \in RegistryIds :
          /\ has(registry, o) <=> get(registry, o) # None
          /\ get(registry, o) # None => get(registry, o)[1].id = o
    /\ lastCall.op = "register" =>
          /\ get(registry, lastCall.id) = <<lastCall.definition>>
          /\ lastCall.othersKept
    /\ lastCall.op = "registerBatch" =>
          /\ \A i \in DOMAIN lastCall.definitions :
                get(registry, lastCall.definitions[i].id)
                    = <<lastOfBatch(lastCall.definitions, i)>>
          /\ lastCall.othersKept
          /\ lastCall.returned = size(registry) - lastCall.sizeBefore
    /\ lastCall.op = "unregister" =>
          /\ lastCall.returned = lastCall.existed
          /\ get(registry, lastCall.id) = None
          /\ lastCall.othersKept
    /\ lastCall.op = "clear" =>
          /\ size(registry) = 0
          /\ \A o \in RegistryIds : get(registry, o) = None
    /\ lastCall.op = "lookup" =>
          /\ lastCall.get = get(registry, lastCall.id)
          /\ lastCall.has = has(registry, lastCall.id)
          /\ lastCall.getAllIds = getAllIds(registry)
          /\ lastCall.size = size(registry)

\* a definition was registered over another one of the same id, next to
\* an entry of another id
C21_Witness ==
    /\ lastCall.op = "register"
    /\ lastCall.existed
    /\ lastCall.definition # HealthArcDefinition
    /\ lastCall.id = STR_health_arc
    /\ size(registry) = 2

\* the key list of the overlay's keyPress trigger holds the key in some
\* letter case
keyListed(overlay, triggerKey) ==
    /\ overlay.triggers.keyPress # None
    /\ \E k \in overlay.triggers.keyPress[1].keys : toLowerCase(k) = toLowerCase(triggerKey)

\* C22: filterByKeyTrigger(key) returns exactly the registered definitions
\* whose keyPress trigger lists the key, compared without regard to the
\* letter case of the argument and of the listed keys; the result is a
\* subset of filterByTrigger('keyPress').
C22_KeyMatchIgnoresCase ==
    lastCall.op = "filterByKeyTrigger" =>
        /\ lastCall.returned =
              {o \in DOMAIN registry : keyListed(registry[o], lastCall.triggerKey)}
        /\ lastCall.returned \subseteq lastCall.keyPress

\* ---------------------------------------------------------------------
\* TokenAdapter: tracking reference number (a flag of the token document)
\* ---------------------------------------------------------------------
DISPOSITION_SECRET == -2
DISPOSITION_HOSTILE == -1
DISPOSITION_NEUTRAL == 0
DISPOSITION_FRIENDLY == 1
Dispositions == {DISPOSITION_SECRET, DISPOSITION_HOSTILE, DISPOSITION_NEUTRAL,
                 DISPOSITION_FRIENDLY}

\* Math.floor(Math.random() * 99) + 1 yields a number of 1..99
MIN_TRN == 1
MAX_TRN == 99
RandomDraws == {MIN_TRN, 42, MAX_TRN}

CHAR_0 == 48
CHAR_SPACE == 32
RECURSIVE toString(_)
toString(n) == IF n < 10 THEN <<CHAR_0 + n>> ELSE toString(n \div 10) \o <<CHAR_0 + (n % 10)>>

RECURSIVE padStart(_, _, _)
padStart(str, targetLength, pad) ==
    IF Len(str) >= targetLength THEN str ELSE padStart(<<pad>> \o str, targetLength, pad)

getFlag(fl, tokenId) == IF tokenId \in DOMAIN fl.stored THEN fl.stored[tokenId] ELSE 0

\* the update is sent and applied to the document when its answer arrives
setFlag(fl, tokenId, trn) ==
    [fl EXCEPT !.writes = @ \cup {[tokenId |-> tokenId, trn |-> trn]}]

existingNumbers(fl) == {getFlag(fl, t) : t \in DOMAIN fl.stored} \ {0}

\* the numbers the draw loop can end on
generateUniqueTrackingNumber(fl) == RandomDraws \ existingNumbers(fl)

\* the outcomes of one read of the getter: the text returned and the
\* document flags afterwards
trackingReferenceNumber(fl, tokenId) ==
    IF getFlag(fl, tokenId) # 0
    THEN {[trn |-> padStart(toString(getFlag(fl, tokenId)), 3, CHAR_0), flags |-> fl]}
    ELSE {[trn |-> padStart(toString(trn), 3, CHAR_0), flags |-> setFlag(fl, tokenId, trn)] :
             trn \in generateUniqueTrackingNumber(fl)}

\* ---------------------------------------------------------------------
\* OverlayCoordinatorHelper: context options
\* ---------------------------------------------------------------------
\* the value of a division of two integers: a fraction n/d (d > 0), NaN,
\* or an infinity of sign n
Fraction(n, d) == [kind |-> "finite", n |-> n, d |-> d]
NaN == [kind |-> "NaN", n |-> 0, d |-> 1]
Infinity(sign) == [kind |-> "Infinity", n |-> sign, d |-> 1]

divide(a, b) ==
    IF b = 0 THEN IF a = 0 THEN NaN ELSE Infinity(IF a > 0 THEN 1 ELSE -1)
    ELSE IF b > 0 THEN Fraction(a, b) ELSE Fraction(-a, -b)

\* Math.min(1, x)
minWithOne(x) ==
    CASE x.kind = "NaN" -> NaN
      [] x.kind = "Infinity" -> IF x.n > 0 THEN Fraction(1, 1) ELSE x
      [] OTHER -> IF x.n > x.d THEN Fraction(1, 1) ELSE x

\* start - (percentage * 49)
ARC_SPAN == 49
endAngle(start, percentage) ==
    CASE percentage.kind = "NaN" -> NaN
      [] percentage.kind = "Infinity" -> Infinity(-percentage.n)
      [] OTHER -> Fraction(start * percentage.d - percentage.n * ARC_SPAN, percentage.d)

STR_Contact == <<67, 111, 110, 116, 97, 99, 116>>
STR_Bogey == <<66, 111, 103, 101, 121>>
STR_Bandit == <<66, 97, 110, 100, 105, 116>>

prefixOf(disposition) ==
    CASE disposition = DISPOSITION_SECRET -> STR_Contact
      [] disposition = DISPOSITION_NEUTRAL -> STR_Bogey
      [] disposition = DISPOSITION_HOSTILE -> STR_Bandit
      [] OTHER -> <<>>

healthArcOptions(obfuscatedHealth) ==
    [healthArcStartAngle |-> 359,
     healthArcEndAngle |->
         endAngle(359, minWithOne(divide(obfuscatedHealth.health,
                                         obfuscatedHealth.maxHealth))),
     tempHealthArcStartAngle |-> 310,
     tempHealthArcEndAngle |->
         endAngle(310, IF obfuscatedHealth.tempHealth > 0
                       THEN minWithOne(divide(obfuscatedHealth.tempHealth,
                                              obfuscatedHealth.maxHealth))
                       ELSE Fraction(0, 1)),
     backgroundStartAngle |->
         endAngle(359, minWithOne(divide(obfuscatedHealth.health,
                                         obfuscatedHealth.maxHealth))),
     backgroundEndAngle |-> 310,
     arcWidth |-> 4,
     anticlockwise |-> TRUE]

\* The outcomes of buildContextOptions are the options returned and the
\* document flags afterwards.  obfuscateHealth is called with the target
\* token alone, so its isGM parameter is undefined (falsy).
\* This variant reads the tracking number first, whatever the disposition.
buildContextOptions_ReadsFirst(overlayId, targetToken, world, now, fl) ==
    CASE overlayId = STR_health_arc ->
            {[options |-> healthArcOptions(obfuscateHealth(targetToken, FALSE, world, now)),
              flags |-> fl]}
      [] overlayId = STR_token_info ->
            {[options |-> [trackingReferenceNumber |->
                              IF targetToken.disposition = DISPOSITION_FRIENDLY THEN <<>>
                              ELSE prefixOf(targetToken.disposition)
                                       \o <<CHAR_SPACE>> \o r.trn],
              flags |-> r.flags] : r \in trackingReferenceNumber(fl, targetToken.id)}
      [] OTHER -> {[options |-> << >>, flags |-> fl]}

buildContextOptions(overlayId, targetToken, world, now, fl) ==
    CASE overlayId = STR_health_arc ->
            {[options |-> healthArcOptions(obfuscateHealth(targetToken, FALSE, world, now)),
              flags |-> fl]}
      [] overlayId = STR_token_info ->
            IF targetToken.disposition = DISPOSITION_FRIENDLY
            THEN {[options |-> [trackingReferenceNumber |-> <<>>], flags |-> fl]}
            ELSE {[options |-> [trackingReferenceNumber |->
                                   prefixOf(targetToken.disposition)
                                       \o <<CHAR_SPACE>> \o r.trn],
                   flags |-> r.flags] : r \in trackingReferenceNumber(fl, targetToken.id)}
      [] OTHER -> {[options |-> << >>, flags |-> fl]}

OptionsInputs == {x \in ObfInputs : x.now2 = x.now}

InitOptions ==
    /\ obfIn \in {<<x>> : x \in OptionsInputs}
    /\ obfOut = None
    /\ obfOut2 = None
    /\ scIn = None
    /\ scOut = None
    /\ EngineIdle
    /\ HostIdle

\* buildContextOptions for the health arc, or for an overlay that has no
\* options of its own, on the token and world of obfIn
BuildContextOptions ==
    /\ obfIn # None
    /\ lastCall.op = "constructed"
    /\ \E overlayId \in {STR_health_arc, STR_arc} :
         \E c \in buildContextOptions(overlayId, obfIn[1].targetToken, obfIn[1].world,
                                      obfIn[1].now, flags) :
             /\ lastCall' = [op |-> "buildContextOptions", overlayId |-> overlayId,
                             options |-> c.options]
             /\ flags' = c.flags
    /\ UNCHANGED <<pureVars, canvas, registry, svc, kbd, drag, helper, press, tasks, busVars>>

NextOptions == BuildContextOptions
SpecOptions == InitOptions /\ [][NextOptions]_vars

\* ---------------------------------------------------------------------
\* Properties of the context options
\* ---------------------------------------------------------------------
HealthArcBuilt ==
    /\ lastCall.op = "buildContextOptions"
    /\ lastCall.overlayId = STR_health_arc

\* lo <= x <= hi for a value x of a division
Within(x, lo, hi) ==
    /\ x.kind = "finite"
    /\ lo * x.d <= x.n
    /\ x.n <= hi * x.d

\* C24: the health-arc options built from any health result have the
\* health arc from 359 to an end within [310, 359], the background from
\* that end down to 310, and the temporary-health arc from 310 to an end
\* within [261, 310] (the percentages lie in [0, 1]).
C24_AnglesWithinArc ==
    HealthArcBuilt =>
        /\ lastCall.options.healthArcStartAngle = 359
        /\ Within(lastCall.options.healthArcEndAngle, 310, 359)
        /\ lastCall.options.backgroundStartAngle = lastCall.options.healthArcEndAngle
        /\ lastCall.options.backgroundEndAngle = 310
        /\ lastCall.options.tempHealthArcStartAngle = 310
        /\ Within(lastCall.options.tempHealthArcEndAngle, 261, 310)

\* C30: when the current user is a GM or owns the target token, the
\* health-arc options are those of the actor's exact health figures.
C30_PrivilegedGetsExact ==
    (HealthArcBuilt /\ ObfPrivileged) =>
        lastCall.options =
            healthArcOptions(getExactHealth(obfIn[1].targetToken, obfIn[1].world))

\* ---------------------------------------------------------------------
\* Tracking reference numbers of the tokens of a scene
\* ---------------------------------------------------------------------
SceneTokens == TokenIds

\* the flags record also keeps, per token, the first text a read returned
InitTracking ==
    /\ PureIdle
    /\ EngineIdle
    /\ flags \in {[stored |-> [t \in SceneTokens |-> IF t = STR_a THEN n ELSE 0],
                   writes |-> {},
                   first |-> [t \in SceneTokens |-> <<>>]] : n \in {0, 42}}
    /\ tasks = {}
    /\ BusIdle

noteRead(fl, tokenId, trn) ==
    [fl EXCEPT !.first[tokenId] = IF @ = <<>> THEN trn ELSE @]

\* a read of token.trackingReferenceNumber
ReadTrackingNumber ==
    \E tokenId \in SceneTokens :
        \E r \in trackingReferenceNumber(flags, tokenId) :
            /\ flags' = noteRead(r.flags, tokenId, r.trn)
            /\ lastCall' = [op |-> "trackingReferenceNumber", tokenId |-> tokenId,
                            returned |-> r.trn, flagBefore |-> getFlag(flags, tokenId)]
            /\ UNCHANGED <<pureVars, canvas, registry, svc, kbd, drag, helper, press, tasks, busVars>>

\* buildContextOptions for the token-info overlay of a token of the scene,
\* whose document has any of the dispositions
BuildTokenInfoOptions ==
    \E tokenId \in SceneTokens, disposition \in Dispositions :
        \E c \in buildContextOptions(STR_token_info,
                                     [id |-> tokenId, disposition |-> disposition],
                                     << >>, 0, flags) :
            /\ flags' = IF c.options.trackingReferenceNumber = <<>> THEN c.flags
                        ELSE noteRead(c.flags, tokenId,
                                      SubSeq(c.options.trackingReferenceNumber,
                                             Len(c.options.trackingReferenceNumber) - 2,
                                             Len(c.options.trackingReferenceNumber)))
            /\ lastCall' = [op |-> "buildContextOptions", overlayId |-> STR_token_info,
                            tokenId |-> tokenId, disposition |-> disposition,
                            options |-> c.options, flagBefore |-> getFlag(flags, tokenId),
                            assigned |-> c.flags # flags]
            /\ UNCHANGED <<pureVars, canvas, registry, svc, kbd, drag, helper, press, tasks, busVars>>

\* the answer to a setFlag update arrives: the document takes the value
FlagWriteLands ==
    \E w \in flags.writes :
        /\ flags' = [flags EXCEPT !.stored[w.tokenId] = w.trn, !.writes = @ \ {w}]
        /\ lastCall' = [op |-> "flagWritten", tokenId |-> w.tokenId, trn |-> w.trn]
        /\ UNCHANGED <<pureVars, canvas, registry, svc, kbd, drag, helper, press, tasks, busVars>>

NextTracking == ReadTrackingNumber \/ BuildTokenInfoOptions \/ FlagWriteLands
SpecTracking == InitTracking /\ [][NextTracking]_vars

\* ---------------------------------------------------------------------
\* Properties of the tracking reference number
\* ---------------------------------------------------------------------
TokenInfoBuilt ==
    /\ lastCall.op = "buildContextOptions"
    /\ lastCall.overlayId = STR_token_info

threeDigits(n) == <<CHAR_0 + (n \div 100), CHAR_0 + ((n \div 10) % 10), CHAR_0 + (n % 10)>>

prefixText(disposition) ==
    IF disposition = DISPOSITION_SECRET THEN STR_Contact
    ELSE IF disposition = DISPOSITION_NEUTRAL THEN STR_Bogey
    ELSE STR_Bandit

\* C25: the token-info text of a friendly token is empty and building it
\* assigns no tracking number; the text of any other token is its prefix
\* (Contact for secret, Bogey for neutral, Bandit for hostile), a space and
\* the three digits of its tracking number: the number its flag held, or
\* else the number being assigned by this read.
C25_TokenInfoText ==
    TokenInfoBuilt =>
        IF lastCall.disposition = DISPOSITION_FRIENDLY
        THEN /\ lastCall.options.trackingReferenceNumber = <<>>
             /\ ~lastCall.assigned
        ELSE \E n \in MIN_TRN..MAX_TRN :
                /\ lastCall.options.trackingReferenceNumber =
                      prefixText(lastCall.disposition) \o <<CHAR_SPACE>> \o threeDigits(n)
                /\ IF lastCall.flagBefore # 0 THEN n = lastCall.flagBefore
                   ELSE [tokenId |-> lastCall.tokenId, trn |-> n] \in flags.writes

\* "Bandit 042" for a hostile token with tracking number 042
STR_Bandit_042 == <<66, 97, 110, 100, 105, 116, 32, 48, 52, 50>>

C25_Witness ==
    /\ TokenInfoBuilt
    /\ lastCall.disposition = DISPOSITION_HOSTILE
    /\ lastCall.flagBefore = 42
    /\ lastCall.options.trackingReferenceNumber = STR_Bandit_042

\* C28: a read of a token's tracking number returns what the first read of
\* that token returned, and no two tokens of the scene hold the same number.
C28_StableAndUnique ==
    /\ lastCall.op = "trackingReferenceNumber" =>
          lastCall.returned = flags.first[lastCall.tokenId]
    /\ \A t1, t2 \in SceneTokens :
          (t1 # t2 /\ flags.stored[t1] # 0) => flags.stored[t1] # flags.stored[t2]

\* ---------------------------------------------------------------------
\* The M key under the event bus: emit calls handleKeyDown / handleKeyUp
\* at once and nobody awaits the promise, so a handler runs up to its
\* first pending await and the rest runs later.  The scope pass of a
\* key-down is suspended after the overlays of each target token
\* (await renderOverlaysOnToken) and tracks its cache when it resumes
\* after the last one.  tasks holds the suspended key-down handlers:
\* [units, groups], the per-token renders still to do and the groups
\* processed so far.
\* ---------------------------------------------------------------------
MaxPending == 2

\* the renders of one scope group, token by token; the group counts as
\* processed after its last token
unitsOfGroup(group, targetTokens) ==
    [i \in DOMAIN targetTokens |->
        [targetToken |-> targetTokens[i],
         overlays |-> prepareOverlaysWithContextBuilders(group.overlays),
         processed |-> IF i = Len(targetTokens)
                       THEN <<[targetTokens |-> targetTokens, overlays |-> group.overlays]>>
                       ELSE <<>>]]

RECURSIVE renderingUnits(_, _)
renderingUnits(overlayGroups, cv) ==
    IF overlayGroups = <<>> THEN <<>>
    ELSE unitsOfGroup(Head(overlayGroups),
                      getTargetTokens(tokenRepositoryGetAll(cv), Head(overlayGroups).scope,
                                      None))
             \o renderingUnits(Tail(overlayGroups), cv)

\* renderOverlaysOnToken for one unit, from the service and tracking map
\* as they are now
renderUnit(s, k, reg, cv, unit) ==
    renderOverlaysOnToken([svc |-> s, renderedOverlays |-> k.renderedOverlays,
                           groups |-> <<>>, requested |-> {}, performed |-> {},
                           raised |-> FALSE],
                          reg, cv, unit.targetToken, unit.overlays)

\* the scope pass runs its next unit and is suspended again, or, when an
\* error left the call, is over
afterUnit(st, k, task, pending) ==
    [svc |-> st.svc,
     kbd |-> [k EXCEPT !.renderedOverlays = st.renderedOverlays],
     tasks |-> IF st.raised THEN pending
               ELSE pending \cup {[units |-> Tail(task.units),
                                   groups |-> task.groups \o Head(task.units).processed]}]

\* processMKeyOverlays up to its first pending await
startMKeyOverlays(s, k, reg, cv, pending) ==
    IF filterByKeyTrigger(reg, KEY_M) = <<>> THEN [svc |-> s, kbd |-> k, tasks |-> pending]
    ELSE IF renderingUnits(groupOverlaysByTargetScope(filterByKeyTrigger(reg, KEY_M),
                                                     "keyPress"), cv) = <<>>
    THEN [svc |-> s, kbd |-> [k EXCEPT !.mKeyOverlaysCache = EmptyMap], tasks |-> pending]
    ELSE afterUnit(
             renderUnit(s, k, reg, cv,
                 Head(renderingUnits(groupOverlaysByTargetScope(
                          filterByKeyTrigger(reg, KEY_M), "keyPress"), cv))),
             [k EXCEPT !.mKeyOverlaysCache = EmptyMap],
             [units |-> renderingUnits(groupOverlaysByTargetScope(
                            filterByKeyTrigger(reg, KEY_M), "keyPress"), cv),
              groups |-> <<>>],
             pending)

\* a suspended scope pass goes on: the next token, or the tracking of the
\* M-key cache once processOverlaysByScope has returned
resumeMKeyOverlays(s, k, reg, cv, task, pending) ==
    IF task.units = <<>>
    THEN [svc |-> s,
          kbd |-> [k EXCEPT !.mKeyOverlaysCache = trackMGroups(@, task.groups)],
          tasks |-> pending]
    ELSE afterUnit(renderUnit(s, k, reg, cv, Head(task.units)), k, task, pending)

AsyncHostTokens == {t \in KeyboardHostTokens : ~t.hidden}

InitAsyncKeys ==
    /\ PureIdle
    /\ flags = [stored |-> EmptyMap, writes |-> {}]
    /\ tasks = {}
    /\ BusIdle
    /\ canvas \in [ready : {TRUE}, stage : {TRUE}, layers : {CanvasLayers},
                   tokens : [TokenIds -> AsyncHostTokens]]
    /\ registry \in {DefaultRegistry, TwoGroupRegistry}
    /\ svc = performInitialisation(svcConstructed, registry, canvas)
    /\ kbd = kbdConstructed
    /\ drag = dragConstructed
    /\ helper = helperConstructed
    /\ press = pressConstructed
    /\ lastCall = Called("constructed")

MKeyEvents == {"m", "M"}

\* the bus delivers a key-down of the M key
KeyDownDelivered ==
    \E event \in MKeyEvents :
    \E r \in {IF toLowerCase(event) \in kbd.activeKeys
              THEN [svc |-> svc, kbd |-> kbd, tasks |-> tasks]
              ELSE startMKeyOverlays(svc, keyPressed(coordinatorState(svc, kbd),
                                                     toLowerCase(event)).kbd,
                                     registry, canvas, tasks)} :
        /\ Cardinality(r.tasks) <= MaxPending
        /\ svc' = r.svc
        /\ kbd' = r.kbd
        /\ tasks' = r.tasks
        /\ lastCall' = [op |-> "keyDown", key |-> toLowerCase(event),
                        ignored |-> toLowerCase(event) \in kbd.activeKeys,
                        suspended |-> r.tasks # tasks]
        /\ UNCHANGED <<pureVars, flags, busVars, helper, canvas, registry, drag, press>>

\* a suspended key-down handler resumes after its await
KeyDownResumes ==
    \E task \in tasks :
    \E r \in {resumeMKeyOverlays(svc, kbd, registry, canvas, task, tasks \ {task})} :
        /\ svc' = r.svc
        /\ kbd' = r.kbd
        /\ tasks' = r.tasks
        /\ lastCall' = [op |-> "keyDownResumed", finished |-> task.units = <<>>,
                        keyIdle |-> KEY_M \notin kbd.activeKeys]
        /\ UNCHANGED <<pureVars, flags, busVars, helper, canvas, registry, drag, press>>

\* the bus delivers a key-up of the M key; the hide pass has no pending
\* await before its work is done
KeyUpDelivered ==
    \E event \in MKeyEvents :
    \E c \in {handleKeyUp(coordinatorState(svc, kbd), event)} :
        /\ svc' = c.svc
        /\ kbd' = c.kbd
        /\ lastCall' = [op |-> "keyUp", key |-> toLowerCase(event),
                        ignored |-> toLowerCase(event) \notin kbd.activeKeys,
                        hidePass |-> toLowerCase(event) \in kbd.activeKeys
                                        /\ DOMAIN kbd.mKeyOverlaysCache # {},
                        suspended |-> tasks # {}]
        /\ UNCHANGED <<pureVars, hostVars, helper, canvas, registry, drag, press>>

NextAsyncKeys == KeyDownDelivered \/ KeyDownResumes \/ KeyUpDelivered
SpecAsyncKeys == InitAsyncKeys /\ [][NextAsyncKeys]_vars

\* ---------------------------------------------------------------------
\* Properties of the M key under the event bus
\* ---------------------------------------------------------------------
\* C27: a hide pass started by a key-up of the M key never runs while a
\* scope pass started by a key-down of that key is suspended, and once no
\* handler is suspended and the key is idle, no overlay is left visible.
C27_StrictHideThenShow ==
    /\ (lastCall.op = "keyUp" /\ lastCall.hidePass) => ~lastCall.suspended
    /\ (tasks = {} /\ KEY_M \notin kbd.activeKeys) =>
          visibleAmong(svc, DOMAIN svc.overlayInstances) = {}

\* ---------------------------------------------------------------------
\* Initialisation of the rendering service under the canvas notifications
\* of the host, which draws a canvas again and again
\* ---------------------------------------------------------------------
NextInitialisation == Initialise \/ CanvasReady \/ CanvasTearDown \/ RenderTokenOverlay
SpecInitialisation == InitRender /\ [][NextInitialisation]_vars /\ WF_vars(CanvasReady)

\* a canvas the service can initialise on
usableCanvas == canvas.stage /\ "tokens" \in canvas.layers

\* C31: initialise() on a canvas that is not ready leaves the service
\* uninitialised, and it stays so while the deferred initialisation waits
\* for the canvas-ready notification; a canvas-ready notification the
\* service handles on a canvas with a stage and a tokens layer leaves it
\* initialised, and so does initialise() on such a canvas when it is
\* ready; a deferred initialisation is followed by the notification, after
\* which the service is initialised unless the canvas drawn is unusable.
C31_DeferredUntilCanvasReady ==
    /\ [](svc.deferred => ~svc.isInitialised)
    /\ []((lastCall.op = "initialise" /\ ~canvas.ready) =>
             (svc.deferred /\ ~svc.isInitialised))
    /\ []((lastCall.op = "initialise" /\ canvas.ready /\ usableCanvas) => svc.isInitialised)
    /\ []((lastCall.op = "canvasReady" /\ lastCall.handled /\ usableCanvas) =>
             svc.isInitialised)
    /\ (svc.deferred ~> (svc.isInitialised \/ (canvas.ready /\ ~usableCanvas)))

\* the deferred initialisation has run on the canvas-ready notification
C31_Witness ==
    /\ lastCall.op = "canvasReady"
    /\ lastCall.deferred
    /\ svc.isInitialised
    /\ ~svc.deferred

\* ---------------------------------------------------------------------
\* The Token Drag Coordinator under the event bus: a drag-start or
\* drag-move handler is suspended at its awaits and resumed later, and
\* other drag events are delivered in between.
\*
\* A suspended handler is [stage, assign, trigger, isGM, units, groups]:
\*   stage "obstacle": inside updateObstacleIndicatorOverlays; assign holds
\*                     the value previousBlocker is still to be given
\*   stage "overlays": inside processOverlaysByScope; units are the renders
\*                     still to come, groups the scope groups processed
\* ---------------------------------------------------------------------
\* updateObstacleIndicatorOverlays up to its first pending await: the old
\* indicators are cleared, previousBlocker is assigned after the awaits
suspendedObstacleUpdate(c, validationResult) ==
    IF validationResult.blockers # <<>> /\ validationResult.type = "blocked"
    THEN IF c.drag.previousBlocker = <<validationResult.blockers[1].id>>
         THEN [c |-> c, assign |-> <<>>]
         ELSE [c |-> clearObstacleIndicatorOverlays(c),
               assign |-> << <<validationResult.blockers[1].id>> >>]
    ELSE IF validationResult.type # "ignored" /\ c.drag.previousBlocker # None
    THEN [c |-> clearObstacleIndicatorOverlays(c), assign |-> <<None>>]
    ELSE [c |-> c, assign |-> <<>>]

\* the rest of handleObstacleDetected / handleObstacleClear
resumedObstacleUpdate(c, reg, task) ==
    IF task.assign = <<>> THEN c
    ELSE IF task.assign[1] = None THEN [c EXCEPT !.drag.previousBlocker = None]
    ELSE [renderObstacleIndicatorOverlays(c, reg, [id |-> task.assign[1][1]], task.isGM)
          EXCEPT !.drag.previousBlocker = task.assign[1]]

\* the renders the scope pass of updateOverlays will make, in order
dragUnits(reg, cv, task) ==
    IF filterByTrigger(reg, task.trigger) = <<>> THEN <<>>
    ELSE IF builderLookupThrows(cv, filterByTrigger(reg, task.trigger)) THEN <<>>
    ELSE renderingUnits(groupOverlaysByTargetScope(filterByTrigger(reg, task.trigger),
                                                   IF task.isGM THEN "true" ELSE Null), cv)

dragAfterUnit(st, d, task, pending) ==
    [svc |-> st.svc,
     drag |-> [d EXCEPT !.renderedOverlays = st.renderedOverlays],
     tasks |-> IF st.raised THEN pending
               ELSE pending \cup {[task EXCEPT !.stage = "overlays",
                                               !.units = Tail(task.units),
                                               !.groups = @ \o Head(task.units).processed]}]

\* a suspended drag handler goes on to its next await, or to its end
resumeDragHandler(c, reg, cv, task, units, pending) ==
    IF task.stage = "obstacle"
    THEN IF units = <<>>
         THEN [svc |-> c.svc, drag |-> c.drag, tasks |-> pending]
         ELSE dragAfterUnit(renderUnit(c.svc, c.drag, reg, cv, Head(units)), c.drag,
                            [task EXCEPT !.units = units], pending)
    ELSE IF task.units = <<>>
    THEN [svc |-> c.svc,
          drag |-> [c.drag EXCEPT !.dragOverlaysCache = trackDragGroups(@, task.groups)],
          tasks |-> pending]
    ELSE dragAfterUnit(renderUnit(c.svc, c.drag, reg, cv, Head(task.units)), c.drag,
                       task, pending)

InitAsyncDrag ==
    /\ PureIdle
    /\ HostIdle
    /\ canvas \in [ready : {TRUE}, stage : {TRUE}, layers : {CanvasLayers},
                   tokens : [TokenIds -> AsyncHostTokens]]
    /\ registry = DragRegistry
    /\ svc = performInitialisation(svcConstructed, registry, canvas)
    /\ kbd = kbdConstructed
    /\ drag = dragConstructed
    /\ helper = helperConstructed
    /\ press = pressConstructed
    /\ lastCall = Called("constructed")

DragTriggers == {"tokenDragStart", "tokenDragMove"}

\* the bus delivers a drag-start or a drag-move
DragHandlerDelivered ==
    \E trigger \in DragTriggers, isGM \in BOOLEAN,
       dragStartTokenId \in DOMAIN canvas.tokens :
    \E validationResult \in ValidationResults(
            filterObstacles(tokenRepositoryGetAll(canvas), dragStartTokenId)) :
    \E r \in {suspendedObstacleUpdate(dragState(svc, drag), validationResult)} :
        /\ Cardinality(tasks) < MaxPending
        /\ svc' = r.c.svc
        /\ drag' = r.c.drag
        /\ tasks' = tasks \cup {[stage |-> "obstacle", assign |-> r.assign,
                                 trigger |-> trigger, isGM |-> isGM,
                                 units |-> <<>>, groups |-> <<>>]}
        /\ lastCall' = [op |-> "dragDelivered", afterEnd |-> FALSE,
                        overtaken |-> FALSE]
        /\ UNCHANGED <<pureVars, flags, busVars, helper, canvas, registry, kbd, press>>

\* a suspended drag-start or drag-move handler resumes after its await
DragHandlerResumes ==
    \E task \in tasks :
    \E c \in {IF task.stage = "obstacle"
              THEN resumedObstacleUpdate(dragState(svc, drag), registry, task)
              ELSE dragState(svc, drag)} :
    \E r \in {resumeDragHandler(c, registry, canvas, task,
                                dragUnits(registry, canvas, task), tasks \ {task})} :
        /\ Len(r.svc.graphics) <= MaxGraphics
        /\ svc' = r.svc
        /\ drag' = r.drag
        /\ tasks' = r.tasks
        /\ lastCall' = [op |-> "dragResumed", afterEnd |-> lastCall.afterEnd,
                        overtaken |-> lastCall.afterEnd]
        /\ UNCHANGED <<pureVars, flags, busVars, helper, canvas, registry, kbd, press>>

\* the bus delivers a drag-end or a drag-cancel, whose handler has no
\* pending await before its work is done
DragFinishDelivered ==
    \E c \in {handleDragEnd(dragState(svc, drag)), handleDragCancel(dragState(svc, drag))} :
        /\ svc' = c.svc
        /\ drag' = c.drag
        /\ lastCall' = [op |-> "dragFinished", afterEnd |-> TRUE, overtaken |-> FALSE]
        /\ UNCHANGED <<pureVars, hostVars, helper, canvas, registry, kbd, press>>

NextAsyncDrag == DragHandlerDelivered \/ DragHandlerResumes \/ DragFinishDelivered
SpecAsyncDrag == InitAsyncDrag /\ [][NextAsyncDrag]_vars

\* C32: once a drag-end or drag-cancel has been delivered and every
\* drag-start and drag-move handler delivered before it has finished,
\* whatever the order in which the suspended handlers resumed: no
\* obstacle-indicator drawable exists, no overlay drawable is visible, the
\* drag cache is empty and the remembered blocker is null.
C32_CleanAfterEveryInterleaving ==
    (lastCall.op \in {"dragFinished", "dragResumed"} /\ lastCall.afterEnd /\ tasks = {}) =>
        /\ findOverlayTypeKeys(svc, STR_obstacle_indicator) = {}
        /\ \A i \in LiveGraphics : ~svc.graphics[i].visible
        /\ drag.dragOverlaysCache = EmptyMap
        /\ drag.previousBlocker = None

\* ---------------------------------------------------------------------
\* Key and drag gestures on one scene, each event handled to its end
\* before the next one is delivered
\* ---------------------------------------------------------------------
NextGestures ==
    \/ KeyDown
    \/ KeyUp
    \/ DragStart
    \/ DragMove
    \/ DragEnd
    \/ DragCancel
    \/ UpdateToken

SpecGestures == InitEngine /\ [][NextGestures]_vars

keyCache(key) == IF key = KEY_M THEN kbd.mKeyOverlaysCache ELSE kbd.kKeyOverlaysCache

\* the tokens a scope pass for the key targets on the scene as it is now
keyTargets(key) ==
    UNION {{t.id : t \in Range(getTargetTokens(tokenRepositoryGetAll(canvas),
                                               scopeOf(registry[o], "keyPress"), None))} :
           o \in {p \in DOMAIN registry : registry[p] \in Range(filterByKeyTrigger(registry, key))}}

\* C33: between handlers, the cache of a tracked key that is not pressed
\* is empty; after a drag-end or drag-cancel the drag cache is empty; a
\* key-up that starts a hide pass leaves that key's cache empty; and after
\* a key-down that ran scope processing, the cache of every pressed key
\* holds only tokens that processing targeted, with the overlay ids of
\* that key, nothing kept from an earlier pass.
C33_CachesOnlyDuringGesture ==
    /\ \A key \in TrackedKeys : key \notin kbd.activeKeys => keyCache(key) = EmptyMap
    /\ lastCall.op \in {"dragEnd", "dragCancel"} => drag.dragOverlaysCache = EmptyMap
    /\ (lastCall.op = "keyUp" /\ ~lastCall.ignored) => keyCache(lastCall.key) = EmptyMap
    /\ (lastCall.op = "keyDown" /\ ~lastCall.ignored) =>
          \A key \in kbd.activeKeys :
              /\ DOMAIN keyCache(key) \subseteq keyTargets(key)
              /\ \A t \in DOMAIN keyCache(key) :
                    keyCache(key)[t] = overlayIdsOf(filterByKeyTrigger(registry, key))

\* a second key goes down after the host hid the token the first key's
\* pass had cached: the first key's cache is rebuilt without that token
C33_Witness ==
    /\ lastCall.op = "keyDown" /\ ~lastCall.ignored
    /\ lastCall.key = KEY_K
    /\ KEY_M \in kbd.activeKeys
    /\ kbd.mKeyOverlaysCache = EmptyMap
    /\ kbd.kKeyOverlaysCache = EmptyMap
    /\ canvas.tokens[STR_a].hidden
    /\ STR_a \in DOMAIN kbd.renderedOverlays
    /\ drag.dragOverlaysCache # EmptyMap

\* ---------------------------------------------------------------------
\* Where a rendered drawable hangs
\* ---------------------------------------------------------------------
\* the parent renderTokenOverlay has to give the drawable of the context
requiredParent(cv, context) ==
    IF context.renderOnTokenMesh /\ getMesh(cv, context.tokenId)
    THEN <<"mesh", context.tokenId>>
    ELSE <<"type", context.overlayTypeId>>

requiredPosition(cv, context) ==
    IF context.renderOnTokenMesh /\ getMesh(cv, context.tokenId)
    THEN <<0, 0>>
    ELSE context.overlayCentre

\* C34: after a renderTokenOverlay(context) that rendered, the instance
\* key has exactly one live drawable; it is visible, hangs on the token's
\* mesh at (0, 0) when the context asks for the mesh and the token has
\* one, and otherwise on the overlay-type container at the overlay's
\* centre, whatever parent it had before; and every overlay-type
\* container hangs on one layer container the service holds.
C34_ParentAndPosition ==
    /\ (lastCall.op = "renderTokenOverlay" /\ lastCall.outcome = "rendered") =>
          /\ lastCall.key \in DOMAIN svc.overlayInstances
          /\ DrawablesNamed(lastCall.key) = {svc.overlayInstances[lastCall.key]}
          /\ svc.graphics[svc.overlayInstances[lastCall.key]].visible
          /\ svc.graphics[svc.overlayInstances[lastCall.key]].parent
                = requiredParent(canvas, lastCall.context)
          /\ svc.graphics[svc.overlayInstances[lastCall.key]].position
                = requiredPosition(canvas, lastCall.context)
    /\ \A o \in DOMAIN svc.overlayTypeContainers :
          svc.overlayTypeContainers[o] \in svc.layerContainers

\* a drawable that hung on its type container is rendered again on the
\* token's mesh
C34_Witness ==
    /\ lastCall.op = "renderTokenOverlay" /\ lastCall.outcome = "rendered"
    /\ lastCall.reused
    /\ lastCall.parentBefore = <<"type", lastCall.context.overlayTypeId>>
    /\ svc.graphics[svc.overlayInstances[lastCall.key]].parent
          = <<"mesh", lastCall.context.tokenId>>
    /\ svc.graphics[svc.overlayInstances[lastCall.key]].position = <<0, 0>>

\* ---------------------------------------------------------------------
\* The obstacle state under the validator's results
\* ---------------------------------------------------------------------
\* C35: on a drag-start or drag-move, an 'ignored' result of the
\* validator, with or without a blocker in it, leaves the remembered
\* blocker as it was and neither clears nor renders an obstacle indicator;
\* a remembered blocker is forgotten only on a result that is not
\* 'ignored' and reports no blocker; such a result clears the indicator
\* and forgets the blocker when one was remembered and does nothing to
\* the obstacle state when none was.
C35_IgnoredLeavesObstacleState ==
    lastCall.op \in {"dragStart", "dragMove"} =>
        /\ lastCall.type = "ignored" =>
              /\ drag.previousBlocker = lastCall.previousBlocker
              /\ lastCall.indicatorOps = {}
        /\ (lastCall.previousBlocker # None /\ drag.previousBlocker = None) =>
              /\ lastCall.type # "ignored"
              /\ lastCall.blocker = None
        /\ (lastCall.type # "ignored" /\ lastCall.blocker = None) =>
              /\ drag.previousBlocker = None
              /\ lastCall.indicatorOps = IF lastCall.previousBlocker # None
                                         THEN {"clear"} ELSE {}

\* an 'ignored' result arrives while a blocker is remembered
C35_Witness ==
    /\ lastCall.op = "dragMove"
    /\ lastCall.type = "ignored"
    /\ lastCall.previousBlocker # None
    /\ drag.previousBlocker = lastCall.previousBlocker

\* C36: between drag handlers, the remembered blocker is non-null exactly
\* when an obstacle-indicator drawable exists, and then the only such
\* drawable is the one of the remembered blocker's token.
C36_BlockerIffIndicator ==
    /\ drag.previousBlocker # None <=> findOverlayTypeKeys(svc, STR_obstacle_indicator) # {}
    /\ drag.previousBlocker # None =>
          findOverlayTypeKeys(svc, STR_obstacle_indicator)
              = {createInstanceKey(drag.previousBlocker[1], STR_obstacle_indicator)}

\* ---------------------------------------------------------------------
\* OverlayContextBuilderRegistry (application/registries)
\*
\* A registry r is [builders, isInitialised]: id -> context builder, and
\* whether the default builders were registered.
\* ---------------------------------------------------------------------
RECURSIVE trimStart(_)
trimStart(str) ==
    IF str # <<>> /\ Head(str) = CHAR_SPACE THEN trimStart(Tail(str)) ELSE str

RECURSIVE trim(_)
trim(str) ==
    IF trimStart(str) # <<>> /\ trimStart(str)[Len(trimStart(str))] = CHAR_SPACE
    THEN trim(SubSeq(trimStart(str), 1, Len(trimStart(str)) - 1))
    ELSE trimStart(str)

registerDefaultBuilders(r) ==
    [r EXCEPT !.builders = MapSet(MapSet(@, STR_health_arc, "HealthArcContextBuilder"),
                                  STR_token_info, "TokenInfoContextBuilder")]

ensureInitialised(r) ==
    IF ~r.isInitialised THEN [registerDefaultBuilders(r) EXCEPT !.isInitialised = TRUE]
    ELSE r

\* [ok, r]: ok = FALSE when register threw
registerBuilder(r, id, builder) ==
    IF trim(id) = <<>> THEN [ok |-> FALSE, r |-> r]
    ELSE IF builder = Null THEN [ok |-> FALSE, r |-> r]
    ELSE [ok |-> TRUE, r |-> [r EXCEPT !.builders = MapSet(@, id, builder)]]

\* [r, value]: the registry after the call and what the call returned
getBuilder(r, id) ==
    [r |-> ensureInitialised(r),
     value |-> IF id \in DOMAIN ensureInitialised(r).builders
               THEN ensureInitialised(r).builders[id] ELSE Null]

hasBuilder(r, id) ==
    [r |-> ensureInitialised(r), value |-> id \in DOMAIN ensureInitialised(r).builders]

unregisterBuilder(r, id) ==
    [r |-> [r EXCEPT !.builders = MapDelete(@, id)], value |-> id \in DOMAIN r.builders]

clearBuilders(r) == [r EXCEPT !.builders = EmptyMap, !.isInitialised = FALSE]

resetBuilders(r) == ensureInitialised(clearBuilders(r))

\* ---------------------------------------------------------------------
\* A Context Builder Registry called in any order
\* ---------------------------------------------------------------------
BuilderIds == {STR_health_arc, STR_token_info, STR_arc, <<>>, <<CHAR_SPACE>>}
BuilderValues == {"HealthArcContextBuilder", "CustomContextBuilder", Null}

InitBuilders ==
    /\ PureIdle
    /\ EngineIdle
    /\ HostIdle

RegisterBuilder ==
    \E id \in BuilderIds, builder \in BuilderValues :
    \E c \in {registerBuilder(builders, id, builder)} :
        /\ builders' = IF c.ok
                       THEN [c.r EXCEPT !.registered = MapSet(@, id, builder),
                                        !.unregistered = @ \ {id}]
                       ELSE c.r
        /\ lastCall' = [op |-> "registerBuilder", id |-> id, threw |-> ~c.ok,
                        first |-> ~builders.isInitialised]
        /\ UNCHANGED <<pureVars, flags, tasks, bus, monitor, helper, canvas, registry, svc,
                       kbd, drag, press>>

GetBuilder ==
    \E id \in BuilderIds :
    \E c \in {getBuilder(builders, id)} :
        /\ builders' = c.r
        /\ lastCall' = [op |-> "getBuilder", id |-> id, threw |-> FALSE,
                        first |-> ~builders.isInitialised]
        /\ UNCHANGED <<pureVars, flags, tasks, bus, monitor, helper, canvas, registry, svc,
                       kbd, drag, press>>

HasBuilder ==
    \E id \in BuilderIds :
    \E c \in {hasBuilder(builders, id)} :
        /\ builders' = c.r
        /\ lastCall' = [op |-> "hasBuilder", id |-> id, threw |-> FALSE,
                        first |-> ~builders.isInitialised]
        /\ UNCHANGED <<pureVars, flags, tasks, bus, monitor, helper, canvas, registry, svc,
                       kbd, drag, press>>

UnregisterBuilder ==
    \E id \in BuilderIds :
    \E c \in {unregisterBuilder(builders, id)} :
        /\ builders' = [c.r EXCEPT !.registered = MapDelete(@, id),
                                   !.unregistered = @ \cup {id}]
        /\ lastCall' = [op |-> "unregisterBuilder", id |-> id, threw |-> FALSE,
                        first |-> ~builders.isInitialised]
        /\ UNCHANGED <<pureVars, flags, tasks, bus, monitor, helper, canvas, registry, svc,
                       kbd, drag, press>>

ClearBuilders ==
    /\ builders' = [clearBuilders(builders) EXCEPT !.registered = EmptyMap,
                                                   !.unregistered = {}]
    /\ lastCall' = [op |-> "clearBuilders", id |-> <<>>, threw |-> FALSE,
                    first |-> ~builders.isInitialised]
    /\ UNCHANGED <<pureVars, flags, tasks, bus, monitor, helper, canvas, registry, svc,
                   kbd, drag, press>>

ResetBuilders ==
    /\ builders' = [resetBuilders(builders) EXCEPT !.registered = EmptyMap,
                                                   !.unregistered = {}]
    /\ lastCall' = [op |-> "resetBuilders", id |-> <<>>, threw |-> FALSE,
                    first |-> ~builders.isInitialised]
    /\ UNCHANGED <<pureVars, flags, tasks, bus, monitor, helper, canvas, registry, svc,
                   kbd, drag, press>>

NextBuilders ==
    \/ RegisterBuilder
    \/ GetBuilder
    \/ HasBuilder
    \/ UnregisterBuilder
    \/ ClearBuilders
    \/ ResetBuilders

SpecBuilders == InitBuilders /\ [][NextBuilders]_vars

\* C37: whatever the order of the calls, a get(id) returns the builder
\* last registered under id as long as no unregister, clear or reset came
\* after that register, also when the id is one of the default ids and
\* the register came before the registry's first lookup; and has(id) is
\* false for an id unregistered and not registered since.
C37_RegisterThenGet ==
    /\ \A id \in DOMAIN builders.registered :
          getBuilder(builders, id).value = builders.registered[id]
    /\ \A id \in builders.unregistered : ~hasBuilder(builders, id).value

\* ---------------------------------------------------------------------
\* EventBus (infrastructure/events)
\*
\* A bus b is [listeners, onceListeners]: event -> the handlers of its
\* Set, in insertion order. A handler is a function object [name,
\* instance]: two handlers are the same only when they are the same
\* object; instance numbers the objects bind made from one method.
\* ---------------------------------------------------------------------
MaxDepth == 1
MaxHandlers == 2
MaxBound == 9

handlersOf(listeners, event) == IF event \in DOMAIN listeners THEN listeners[event] ELSE <<>>

\* Set.add
setAdd(handlers, handler) ==
    IF handler \in Range(handlers) THEN handlers ELSE Append(handlers, handler)

on(b, event, handler) ==
    [b EXCEPT !.listeners = MapSet(@, event, setAdd(handlersOf(b.listeners, event), handler))]

\* rest: the Set after handlers.delete(handler)
dropEmpty(listeners, event, rest) ==
    IF rest = <<>> THEN MapDelete(listeners, event) ELSE MapSet(listeners, event, rest)

off(b, event, handler) ==
    IF event \notin DOMAIN b.listeners THEN b
    ELSE [b EXCEPT !.listeners =
             dropEmpty(@, event, SelectSeq(b.listeners[event], LAMBDA h : h # handler))]

once(b, event, handler) ==
    [b EXCEPT !.onceListeners =
        MapSet(@, event, setAdd(handlersOf(b.onceListeners, event), handler))]

\* what calling a handler gives: it throws, returns nothing, or returns a
\* promise that resolves or rejects; the methods of the monitor are async
\* and catch their own errors
resultOf(handler) ==
    CASE handler.name = "throws" -> "threw"
      [] handler.name = "rejects" -> "rejected"
      [] handler.name = "reemits" -> "returned"
      [] OTHER -> "resolved"

\* result.catch(error => log)
caught(result) == "resolved"

pushPromise(acc, result) ==
    IF result \in {"resolved", "rejected"}
    THEN [acc EXCEPT !.promises = Append(@, caught(result))]
    ELSE acc

\* nested: what an emit made from inside the handler did
afterNested(acc, nested) ==
    [acc EXCEPT !.bus = nested.bus, !.calls = @ \o nested.calls]

clearOnce(acc, event) == [acc EXCEPT !.bus.onceListeners = MapDelete(@, event)]

\* emit up to its await: [bus, calls, promises], the bus afterwards, the
\* handlers called in order, and the promises Promise.all waits for
RECURSIVE emit(_, _, _)
RECURSIVE invokeHandlers(_, _, _, _)
invokeHandlers(acc, event, handlers, depth) ==
    IF handlers = <<>> THEN acc
    ELSE invokeHandlers(
             pushPromise(
                 IF Head(handlers).name = "reemits" /\ depth < MaxDepth
                 THEN afterNested([acc EXCEPT !.calls = Append(@, Head(handlers))],
                                  emit(acc.bus, event, depth + 1))
                 ELSE [acc EXCEPT !.calls = Append(@, Head(handlers))],
                 resultOf(Head(handlers))),
             event, Tail(handlers), depth)

emit(b, event, depth) ==
    IF event \in DOMAIN b.onceListeners
    THEN clearOnce(
             invokeHandlers(
                 invokeHandlers([bus |-> b, calls |-> <<>>, promises |-> <<>>],
                                event, handlersOf(b.listeners, event), depth),
                 event, b.onceListeners[event], depth),
             event)
    ELSE invokeHandlers([bus |-> b, calls |-> <<>>, promises |-> <<>>],
                        event, handlersOf(b.listeners, event), depth)

\* ---------------------------------------------------------------------
\* HealthMonitor (domain/services)
\* ---------------------------------------------------------------------
\* this.method.bind(this): a new function object at each call
bind(m, method, k) == [name |-> method, instance |-> m.bound + k]

monitorInitialise(b, m) ==
    IF m.initialised THEN [bus |-> b, monitor |-> m]
    ELSE [bus |-> on(on(on(b, "actor:update", bind(m, "handleActorUpdate", 1)),
                        "token:control", bind(m, "handleTokenControl", 2)),
                     "canvas:ready", bind(m, "handleCanvasReady", 3)),
          monitor |-> [m EXCEPT !.initialised = TRUE, !.bound = @ + 3]]

monitorDestroy(b, m) ==
    [bus |-> off(off(off(b, "actor:update", bind(m, "handleActorUpdate", 1)),
                     "token:control", bind(m, "handleTokenControl", 2)),
                 "canvas:ready", bind(m, "handleCanvasReady", 3)),
     monitor |-> [m EXCEPT !.initialised = FALSE, !.bound = @ + 3]]

\* ---------------------------------------------------------------------
\* A bus with the monitor and with handlers of every kind subscribed to
\* canvas:ready
\* ---------------------------------------------------------------------
BusEvents == {"actor:update", "token:control", "canvas:ready"}
MonitorMethods == {"handleActorUpdate", "handleTokenControl", "handleCanvasReady"}
PlainHandlers == {[name |-> n, instance |-> 0] : n \in {"throws", "resolves", "rejects", "reemits"}}

InitBus ==
    /\ PureIdle
    /\ EngineIdle
    /\ HostIdle

BusCalled(op, event) ==
    [op |-> op, event |-> event, calls |-> <<>>, rejected |-> FALSE,
     subscribed |-> {}, onceSubscribed |-> {}, monitorLive |-> monitor.initialised]

BusOn ==
    \E handler \in PlainHandlers :
        /\ Len(handlersOf(bus.listeners, "canvas:ready")) < MaxHandlers
        /\ bus' = on(bus, "canvas:ready", handler)
        /\ lastCall' = BusCalled("on", "canvas:ready")
        /\ UNCHANGED <<pureVars, flags, tasks, builders, monitor, helper, canvas, registry,
                       svc, kbd, drag, press>>

BusOff ==
    \E handler \in PlainHandlers :
        /\ bus' = off(bus, "canvas:ready", handler)
        /\ lastCall' = BusCalled("off", "canvas:ready")
        /\ UNCHANGED <<pureVars, flags, tasks, builders, monitor, helper, canvas, registry,
                       svc, kbd, drag, press>>

BusOnce ==
    \E handler \in PlainHandlers :
        /\ Len(handlersOf(bus.onceListeners, "canvas:ready")) < MaxHandlers
        /\ bus' = once(bus, "canvas:ready", handler)
        /\ lastCall' = BusCalled("once", "canvas:ready")
        /\ UNCHANGED <<pureVars, flags, tasks, builders, monitor, helper, canvas, registry,
                       svc, kbd, drag, press>>

BusEmit ==
    \E event \in BusEvents :
    \E r \in {emit(bus, event, 0)} :
        /\ bus' = r.bus
        /\ lastCall' = [op |-> "emit", event |-> event, calls |-> r.calls,
                        rejected |-> "rejected" \in Range(r.promises),
                        subscribed |-> Range(handlersOf(bus.listeners, event)),
                        onceSubscribed |-> Range(handlersOf(bus.onceListeners, event)),
                        monitorLive |-> monitor.initialised]
        /\ UNCHANGED <<pureVars, flags, tasks, builders, monitor, helper, canvas, registry,
                       svc, kbd, drag, press>>

MonitorInitialise ==
    \E r \in {monitorInitialise(bus, monitor)} :
        /\ r.monitor.bound <= MaxBound
        /\ bus' = r.bus
        /\ monitor' = r.monitor
        /\ lastCall' = BusCalled("monitorInitialise", "")
        /\ UNCHANGED <<pureVars, flags, tasks, builders, helper, canvas, registry,
                       svc, kbd, drag, press>>

MonitorDestroy ==
    \E r \in {monitorDestroy(bus, monitor)} :
        /\ r.monitor.bound <= MaxBound
        /\ bus' = r.bus
        /\ monitor' = r.monitor
        /\ lastCall' = BusCalled("monitorDestroy", "")
        /\ UNCHANGED <<pureVars, flags, tasks, builders, helper, canvas, registry,
                       svc, kbd, drag, press>>

NextBus ==
    \/ BusOn
    \/ BusOff
    \/ BusOnce
    \/ BusEmit
    \/ MonitorInitialise
    \/ MonitorDestroy

SpecBus == InitBus /\ [][NextBus]_vars

monitorHandlers(event) ==
    {h \in Range(handlersOf(bus.listeners, event)) : h.name \in MonitorMethods}

\* C38: while the monitor is destroyed none of its handlers is subscribed
\* on the bus and no emit reaches it, and after any number of
\* initialise()/destroy() cycles at most one handler of the monitor is
\* subscribed per event.
C38_DestroyUnsubscribes ==
    /\ ~monitor.initialised => \A event \in BusEvents : monitorHandlers(event) = {}
    /\ \A event \in BusEvents : Cardinality(monitorHandlers(event)) <= 1
    /\ (lastCall.op = "emit" /\ ~lastCall.monitorLive) =>
          \A i \in DOMAIN lastCall.calls : lastCall.calls[i].name \notin MonitorMethods

timesCalled(calls, handler) == Cardinality({i \in DOMAIN calls : calls[i] = handler})

\* C40: an emit calls every handler subscribed to the event, regular or
\* once, whatever the other handlers throw or reject; its promise does not
\* reject; afterwards no once handler of the event is left; and a handler
\* subscribed with once only is called at most once, also when a handler
\* emits the same event from inside.
C40_EmitReachesAllOnceAtMostOnce ==
    lastCall.op = "emit" =>
        /\ \A h \in lastCall.subscribed \cup lastCall.onceSubscribed :
              timesCalled(lastCall.calls, h) >= 1
        /\ ~lastCall.rejected
        /\ lastCall.event \notin DOMAIN bus.onceListeners
        /\ \A h \in lastCall.onceSubscribed \ lastCall.subscribed :
              timesCalled(lastCall.calls, h) <= 1

\* ---------------------------------------------------------------------
\* What the targeted operations of the Rendering Service reach
\* ---------------------------------------------------------------------
\* C39: clearOverlayType(o) and hideAllOverlaysOfType(o) change or destroy
\* only drawables created for overlay type o, and clearAllTokenOverlays(t)
\* only drawables created for token t; every other drawable stays as it
\* was, also when one overlay id is the tail of another after a '-'.
C39_TargetedOperationsAreExact ==
    /\ lastCall.op \in {"clearOverlayType", "hideAllOverlaysOfType"} =>
          lastCall.touched \subseteq {createInstanceKey(t, lastCall.named) : t \in TokenIds}
    /\ lastCall.op = "clearAllTokenOverlays" =>
          lastCall.touched \subseteq
              {createInstanceKey(lastCall.named, o) : o \in RenderOverlayIds}

====
